----------------------------- MODULE FSEventsView -----------------------------
(***************************************************************************)
(* What one FSEvents watch makes of the events of its directory.           *)
(*                                                                         *)
(* The system joins the events of one path into one event with the flags   *)
(* of all, so their order is lost, and the code asks the file system what  *)
(* is there now.  A rename is an event for each of its ends, one after the *)
(* other, with the inode.  A place is a pair of a directory and a name;    *)
(* the directory of the watch is Top.  Changes of contents, and so the     *)
(* Modified events, are left out.                                          *)
(***************************************************************************)
EXTENDS Integers, FiniteSets, SequencesExt

CONSTANTS
    Inodes,
    Places,
    Top,
    Options,   \* the sets of options a watch may be added with
    MaxOps     \* bound: changes of the tree

ASSUME ViewAssumption ==
    /\ MaxOps \in Nat /\ Places # {}
    /\ \A o \in Options : o \subseteq {"Recursive", "ReportCrossDirectoryMoves", "MacSanitizeEvents"}

VARIABLES
    options,
    at,          \* inode -> its place
    ops,
    events,      \* not delivered yet
    batch,       \* of the callback, what is left to handle
    view,        \* what a listener that follows the callbacks takes to be there
    FilesAdded,
    told         \* the callbacks of the last step

vars == <<options, at, ops, events, batch, view, FilesAdded, told>>

Unborn == <<"unborn">>
Gone == <<"gone">>
Outside == <<"outside">>    \* alive, and not under the directory
DirOf(p) == p[1]
Taken == {at[f] : f \in Inodes} \cap Places
Recursive == "Recursive" \in options
ReportCrossDirectoryMoves == "ReportCrossDirectoryMoves" \in options
SanitizeEvents == "MacSanitizeEvents" \in options

-----------------------------------------------------------------------------
(* The system.                                                             *)

Event(flags, p, f) == [path |-> p, flags |-> flags, inode |-> f]
Dropped == Event({"Dropped"}, Outside, 0)

\* An event joins the waiting one of its path, or stays by itself.
Queued(e) ==
    {Append(events, e)} \cup
    {[events EXCEPT ![i] = Event(@.flags \cup e.flags, e.path, e.inode)] :
        i \in {j \in DOMAIN events : events[j].path = e.path}}

Renaming == \E e \in Range(events \o batch) : "Renamed" \in e.flags
Changes == ops < MaxOps /\ ops' = ops + 1 /\ UNCHANGED <<options, batch, view, FilesAdded, told>>

create(f, p) ==
    /\ Changes /\ ~Renaming /\ at[f] = Unborn /\ p \notin Taken
    /\ at' = [at EXCEPT ![f] = p]
    /\ events' \in Queued(Event({"Created"}, p, f))
delete(f) ==
    /\ Changes /\ ~Renaming /\ at[f] \in Places
    /\ at' = [at EXCEPT ![f] = Gone]
    /\ events' \in Queued(Event({"Removed"}, at[f], f))

\* The file at the new place, if any, is replaced.  Renames find the queue
\* empty: what a chain of them leaves is told in the README.  The system may
\* give the old path twice, and then both at once.
rename(f, p) ==
    /\ Changes /\ events = << >> /\ batch = << >>
    /\ at[f] \in Places \cup {Outside} /\ p # at[f]
    /\ at' = [g \in Inodes |-> IF g = f THEN p ELSE IF at[g] = p /\ p # Outside THEN Gone ELSE at[g]]
    /\ LET source == Event({"Renamed"}, at[f], f)
           ends == <<source, Event({"Renamed"}, p, f)>>
           InWatch(e) == e.path # Outside
       IN \/ events' = SelectSeq(ends, InWatch)
          \/ /\ Recursive /\ ReportCrossDirectoryMoves
             /\ Outside \notin {at[f], p} /\ p \notin Taken
             /\ events' = <<source, source>>

overflow ==
    /\ events # << >> /\ events # <<Dropped>>
    /\ events' = <<Dropped>>
    /\ UNCHANGED <<options, at, ops, batch, view, FilesAdded, told>>

deliver ==
    /\ batch = << >> /\ events # << >>
    /\ \E n \in 1..Len(events) :
         /\ n < Len(events) => "Renamed" \notin events[n].flags \/ events[n].path # events[n + 1].path
         /\ batch' = SubSeq(events, 1, n)
         /\ events' = SubSeq(events, n + 1, Len(events))
    /\ UNCHANGED <<options, at, ops, view, FilesAdded, told>>

-----------------------------------------------------------------------------
(* Handling: callbacks as a sequence, and the inodes it adds and takes.    *)

Exists(p) == p \in Taken
Call(act, p, source) == <<[act |-> act, place |-> p, source |-> source]>>
Add(p) == Call("Add", p, p)
Delete(p) == Call("Delete", p, p)
Moved(from, p) == Call("Moved", p, from)
Nothing == << >>

\* Whether the sanitizer lets an Add through.
Sanitized(inode) == inode \in FilesAdded

Adds(e) == "Created" \in e.flags /\ Exists(e.path) /\ (~SanitizeEvents \/ Sanitized(e.inode))
Deletes(e) == "Removed" \in e.flags /\ ~Exists(e.path)
\* Mutant: the flags are believed.
believeFlags(e) ==
    (IF "Created" \in e.flags THEN Add(e.path) ELSE Nothing)
    \o (IF "Removed" \in e.flags THEN Delete(e.path) ELSE Nothing)
handleAddModDel(e) ==
    (IF Adds(e) THEN Add(e.path) ELSE Nothing) \o (IF Deletes(e) THEN Delete(e.path) ELSE Nothing)
FilesAddedAfter(e) ==
    IF ~SanitizeEvents THEN FilesAdded
    ELSE (FilesAdded \cup (IF Adds(e) THEN {e.inode} ELSE {}))
           \ (IF Deletes(e) THEN {e.inode} ELSE {})

findPathByInode(e) == {at[e.inode]} \cap (Places \ {e.path})

IsPair(b) ==
    /\ Len(b) > 1 /\ "Renamed" \in b[1].flags /\ "Renamed" \in b[2].flags
    /\ b[1].inode = b[2].inode

\* Mutant: a pair in two directories is never one move.
neverAcross(e, n) ==
    IF DirOf(e.path) # DirOf(n.path) THEN Delete(e.path) \o Add(n.path)
    ELSE IF Exists(e.path) THEN Moved(n.path, e.path) ELSE Moved(e.path, n.path)
twoPaths(e, n) ==
    LET turned == Exists(e.path) /\ ~Exists(n.path)
        source == IF turned THEN n.path ELSE e.path
        destination == IF turned THEN e.path ELSE n.path
    IN CASE DirOf(e.path) = DirOf(n.path) ->
              IF Exists(e.path) THEN Moved(n.path, e.path) ELSE Moved(e.path, n.path)
         [] DirOf(e.path) # DirOf(n.path) /\ ReportCrossDirectoryMoves /\ Recursive
              /\ Exists(e.path) # Exists(n.path) -> Moved(source, destination)
         [] OTHER -> Delete(source) \o Add(destination)
onePath(e, n) ==
    IF ReportCrossDirectoryMoves /\ Recursive /\ ~Exists(e.path) /\ findPathByInode(e) # {}
    THEN Moved(e.path, CHOOSE p \in findPathByInode(e) : TRUE)
    ELSE handleAddModDel(n)
oneEnd(e) == IF Exists(e.path) THEN Add(e.path) ELSE Delete(e.path)

Follow(v, call) == (IF call.act = "Add" THEN v ELSE v \ {call.source})
                   \cup (IF call.act = "Delete" THEN {} ELSE {call.place})

Tell(n, calls, added) ==
    /\ batch' = SubSeq(batch, n + 1, Len(batch))
    /\ told' = calls
    /\ view' = FoldLeft(Follow, view, calls)
    /\ FilesAdded' = added
    /\ UNCHANGED <<options, at, ops, events>>

missed ==
    /\ batch # << >> /\ "Dropped" \in Head(batch).flags
    /\ batch' = Tail(batch) /\ view' = Taken /\ told' = Nothing
    /\ UNCHANGED <<options, at, ops, events, FilesAdded>>
Visible(p) == p \in Places /\ (Recursive \/ DirOf(p) = Top)
skip ==
    /\ batch # << >> /\ "Dropped" \notin Head(batch).flags /\ ~Visible(Head(batch).path)
    /\ Tell(1, Nothing, FilesAdded)
Next1 == batch # << >> /\ Visible(Head(batch).path)
renamedPair ==
    /\ Next1 /\ IsPair(batch)
    /\ IF batch[1].path # batch[2].path
       THEN Tell(2, twoPaths(batch[1], batch[2]), FilesAdded)
       ELSE Tell(2, onePath(batch[1], batch[2]), FilesAddedAfter(batch[2]))
renamedEnd ==
    /\ Next1 /\ ~IsPair(batch) /\ "Renamed" \in Head(batch).flags
    /\ Tell(1, oneEnd(Head(batch)), FilesAdded)
createdOrRemoved ==
    /\ Next1 /\ "Renamed" \notin Head(batch).flags
    /\ Tell(1, handleAddModDel(Head(batch)), FilesAddedAfter(Head(batch)))

handleActions == missed \/ skip \/ renamedPair \/ renamedEnd \/ createdOrRemoved

-----------------------------------------------------------------------------

Init ==
    /\ options \in Options
    /\ at \in [Inodes -> {Unborn, Outside}] /\ ops = 0
    /\ events = << >> /\ batch = << >>
    /\ view = {} /\ FilesAdded = {} /\ told = Nothing
Next ==
    \/ \E f \in Inodes :
         delete(f) \/ rename(f, Outside) \/ \E p \in Places : create(f, p) \/ rename(f, p)
    \/ overflow \/ deliver \/ handleActions
Spec == Init /\ [][Next]_vars

-----------------------------------------------------------------------------
(* Properties.                                                             *)

\* When all events are handled the listener has the tree, whatever order the
\* joined events hid and wherever they were cut (WatcherFSEvents.cpp:67-69:
\* "i try to keep the data consistent with the real state").
ViewIsTree ==
    events = << >> /\ batch = << >> =>
        {p \in view : Visible(p)} = {p \in Taken : Visible(p)}

\* With ReportCrossDirectoryMoves a move within the watch that is handled
\* whole is one Moved: no Delete comes with an Add (efsw.hpp:166-169).
OneMove ==
    Recursive /\ ReportCrossDirectoryMoves =>
        ~\E c, d \in Range(told) : c.act = "Add" /\ d.act = "Delete"
=============================================================================
