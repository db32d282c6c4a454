------------------------------ MODULE UnixDisk ------------------------------
(***************************************************************************)
(* A redirected drive of the Unix builds: disk.c, with the requests of     *)
(* rdpdr.c that wait for a change of a directory.  A handle of the server  *)
(* is a file descriptor, and what the program knows of it stands in the    *)
(* slot g_fileinfo[fd], which the next opening with that number takes      *)
(* over.  The kernel knows what a descriptor means, the slot only a name:  *)
(* some calls act on the descriptor, some on what has the name by then.    *)
(*                                                                         *)
(* Data, sizes, times and the layout of answers are left out; what matters *)
(* is which file a call changes or tells of.  Whether a directory differs  *)
(* from its snapshot is open.  Other programs use the drive between two    *)
(* requests, not within one.                                               *)
(***************************************************************************)
EXTENDS Integers, Sequences, FiniteSets

CONSTANTS
    Paths,            \* names in the drive
    Files,            \* identities of files
    Directories,      \* and of directories
    Nothing,
    Fds,              \* file descriptors, MAX_OPEN_FILES of them
    Openings,         \* what the server opens: a path, its kind, and the rights it asks for
    MaxWatches,       \* bounds the requests that wait for a change
    OneWatch          \* does the server wait with one request for each handle at most?

Objects == Files \cup Directories
Access == {"write", "delete"}
Dispositions ==
    {"CREATE_ALWAYS", "CREATE_NEW", "OPEN_ALWAYS", "TRUNCATE_EXISTING", "OPEN_EXISTING"}

ASSUME ObjectAssumption ==
    Files \cap Directories = {} /\ Nothing \notin Objects /\ Paths # {}
ASSUME OpeningAssumption ==
    Openings \subseteq
        [path : Paths, kind : {"any", "file", "directory"}, access : SUBSET Access]
ASSUME MaxWatchesAssumption == MaxWatches \in Nat /\ OneWatch \in BOOLEAN

VARIABLES
    drive,            \* what has each name
    filled,           \* the directories with something in them
    opened,           \* what the kernel has open under each descriptor
    g_fileinfo,
    g_notify_stamp,
    watches,          \* the IRP_MJ_DIRECTORY_CONTROL requests of g_iorequest
    running,
    moved,            \* the descriptors whose name was given to something else, or to nothing
    wanted,           \* those that the server asked to delete on close
    last              \* what the last call acted on

unixDiskVars ==
    <<drive, filled, opened, g_fileinfo, g_notify_stamp, watches, running, moved, wanted, last>>

\* struct fileinfo, where "pdir" is the directory its stream reads.
FileInfo == [path : Paths, pdir : Directories \cup {Nothing}, access : SUBSET Access,
             delete_on_close : BOOLEAN]

\* A request: what its descriptor was opened for, what it acted on by the
\* descriptor or its stream, and what by the name; whether the name had moved;
\* whether it removed what has the name, and whether that was asked for.
Acted(object, acted, named, away, removed, asked) ==
    [object |-> object, acted |-> acted, named |-> named, moved |-> away,
     removed |-> removed, asked |-> asked]
NoAct == Acted(Nothing, {}, {}, FALSE, FALSE, FALSE)

Open == {fd \in Fds : opened[fd] # Nothing}
InUse == {drive[p] : p \in Paths} \cup {opened[fd] : fd \in Fds}
PathOf(fd) == g_fileinfo[fd].path

UnixDiskInit ==
    /\ drive \in [Paths -> Objects \cup {Nothing}]
    /\ \A p, q \in Paths : drive[p] = drive[q] /\ p # q => drive[p] = Nothing
    /\ filled = {}
    /\ opened = [fd \in Fds |-> Nothing]
    /\ g_fileinfo = [fd \in Fds |-> [path |-> CHOOSE p \in Paths : TRUE, pdir |-> Nothing,
                                     access |-> {}, delete_on_close |-> FALSE]]
    /\ g_notify_stamp = FALSE /\ watches = <<>> /\ running = TRUE
    /\ moved = {} /\ wanted = {} /\ last = NoAct

\* The names of the drive change; descriptors whose name is concerned have moved.
Renamed(names) ==
    /\ drive' = names
    /\ moved' = moved \cup {fd \in Open : names[PathOf(fd)] # drive[PathOf(fd)]}

-----------------------------------------------------------------------------
(* Which file a call acts on *)

\* read, write, fstat, fchmod, ftruncate: that of the descriptor.
ByHandle(fd) == {opened[fd]}

\* utime, rename, statfs, opendir, stat: what has the name in the slot.
ByPath(fd) == {drive[PathOf(fd)]} \ {Nothing}

\* readdir and rewinddir: that of the stream in the slot.
ByStream(fd) == {g_fileinfo[fd].pdir} \ {Nothing}

Acts(fd, acted, named) == last' = Acted(opened[fd], acted, named, fd \in moved, FALSE, FALSE)

Stamp(condition) == g_notify_stamp' = (g_notify_stamp \/ condition)

-----------------------------------------------------------------------------
(* Opening and closing *)

\* Mutant: the slot keeps the mark of its last opening.
SlotMarked(fd, opening, object) ==
    [path |-> opening.path, pdir |-> IF object \in Directories THEN object ELSE Nothing,
     access |-> opening.access, delete_on_close |-> g_fileinfo[fd].delete_on_close]

\* What disk_create writes into the slot.
Slot(fd, opening, object) ==
    [path |-> opening.path, pdir |-> IF object \in Directories THEN object ELSE Nothing,
     access |-> opening.access, delete_on_close |-> FALSE]

\* CREATE_ALWAYS begins with unlink, which may fail, and does so for directories.
Unlinked(path, disposition) ==
    IF disposition = "CREATE_ALWAYS" /\ drive[path] \in Files
    THEN {drive, [drive EXCEPT ![path] = Nothing]}
    ELSE {drive}

Creates(disposition) == disposition \in {"CREATE_ALWAYS", "CREATE_NEW", "OPEN_ALWAYS"}

\* What open_weak_exclusive and opendir may give: what has the name, or
\* something new, made by open or by mkdir.
OpenedAs(names, opening, disposition) ==
    LET there == names[opening.path]
        new == IF opening.kind = "directory" THEN Directories ELSE Files
    IN  IF there = Nothing
        THEN IF Creates(disposition) THEN new \ InUse ELSE {}
        ELSE IF \/ there \in Directories /\ opening.kind = "file"
                \/ there \in Files /\ opening.kind = "directory"
                \/ there \in Files /\ disposition = "CREATE_NEW"
             THEN {} ELSE {there}

\* What is there when nothing was opened: opendir may refuse what mkdir made, and
\* beyond MAX_OPEN_FILES the program exits, with the file open.
Left(names, opening, disposition) ==
    {names[opening.path]} \cup
    IF opening.kind = "directory" \/ Open = Fds THEN OpenedAs(names, opening, disposition) ELSE {}

disk_create(opening, disposition) ==
    \E names \in Unlinked(opening.path, disposition) :
        \/ \E fd \in Fds \ Open, object \in OpenedAs(names, opening, disposition) :
               /\ Renamed([names EXCEPT ![opening.path] = object])
               /\ opened' = [opened EXCEPT ![fd] = object]
               /\ g_fileinfo' = [g_fileinfo EXCEPT ![fd] = Slot(fd, opening, object)]
               /\ Stamp("write" \in opening.access)
               /\ last' = NoAct
               /\ UNCHANGED <<filled, watches, running, wanted>>
        \/ /\ \E object \in Left(names, opening, disposition) :
                 Renamed([names EXCEPT ![opening.path] = object])
           /\ running' \in {TRUE, Open # Fds}
           /\ last' = NoAct
           /\ UNCHANGED <<filled, opened, g_fileinfo, g_notify_stamp, watches, wanted>>

\* rdpdr_abort_io ends the first request of the descriptor.
Abort(fd) ==
    LET mine == {i \in DOMAIN watches : watches[i].fd = fd}
        first == CHOOSE i \in mine : \A j \in mine : i <= j
    IN  IF mine = {} THEN watches
        ELSE SubSeq(watches, 1, first - 1) \o SubSeq(watches, first + 1, Len(watches))

\* rmdir for a slot with a stream, unlink for one without.
Removable(fd) ==
    IF g_fileinfo[fd].pdir # Nothing
    THEN drive[PathOf(fd)] \in Directories \ filled
    ELSE drive[PathOf(fd)] \in Files

\* The mark stays in the slot when close, rmdir or unlink fails.
disk_close(fd) ==
    /\ Stamp("write" \in g_fileinfo[fd].access)
    /\ watches' = Abort(fd)
    /\ opened' = [opened EXCEPT ![fd] = Nothing]
    /\ wanted' = wanted \ {fd}
    /\ UNCHANGED <<filled, running>>
    /\ \/ /\ g_fileinfo[fd].delete_on_close /\ Removable(fd)
          /\ drive' = [drive EXCEPT ![PathOf(fd)] = Nothing]
          /\ moved' = (moved \cup {other \in Open : PathOf(other) = PathOf(fd)}) \ {fd}
          /\ g_fileinfo' = [g_fileinfo EXCEPT ![fd].delete_on_close = FALSE]
          /\ last' = Acted(opened[fd], ByStream(fd), ByPath(fd), fd \in moved,
                             TRUE, fd \in wanted)
       \/ /\ Acts(fd, ByStream(fd), {})
          /\ moved' = moved \ {fd}
          /\ UNCHANGED <<drive, g_fileinfo>>

-----------------------------------------------------------------------------
(* Requests for a handle *)

Kept == UNCHANGED <<drive, filled, opened, moved>>

\* disk_read, disk_write, and disk_query_information, which asks fstat.
Transfer(fd) ==
    /\ Acts(fd, ByHandle(fd), {})
    /\ Kept /\ UNCHANGED <<g_fileinfo, g_notify_stamp, watches, running, wanted>>

\* FileBasicInformation: times by the name, the mode by the descriptor, each
\* where it is asked for.
SetBasic(fd) ==
    /\ Stamp(TRUE)
    /\ \E acted \in {{}, ByHandle(fd)}, named \in {{}, ByPath(fd)} : Acts(fd, acted, named)
    /\ Kept /\ UNCHANGED <<g_fileinfo, watches, running, wanted>>

\* Cut or grown, by a zero written at the end where need be, it is the file of
\* the descriptor.
ftruncate_growable(fd) == ByHandle(fd)

\* FileEndOfFileInformation: free space by the name.
SetEnd(fd) ==
    /\ Stamp(TRUE)
    /\ \E acted \in {{}, ftruncate_growable(fd)} : Acts(fd, acted, ByPath(fd))
    /\ Kept /\ UNCHANGED <<g_fileinfo, watches, running, wanted>>

\* FileRenameInformation: the slot keeps the old name.
Rename(fd, new) ==
    /\ Stamp(TRUE)
    /\ Acts(fd, {}, ByPath(fd))
    /\ \/ /\ drive[PathOf(fd)] # Nothing /\ new # PathOf(fd)
          /\ \/ drive[new] = Nothing
             \/ drive[new] \in Files /\ drive[PathOf(fd)] \in Files
             \/ drive[new] \in Directories \ filled /\ drive[PathOf(fd)] \in Directories
          /\ Renamed([drive EXCEPT ![new] = drive[PathOf(fd)], ![PathOf(fd)] = Nothing])
       \/ UNCHANGED <<drive, moved>>
    /\ UNCHANGED <<filled, opened, g_fileinfo, watches, running, wanted>>

\* FileDispositionInformation: readdir crashes where opendir gave nothing.
Dispose(fd) ==
    LET directory == drive[PathOf(fd)]
        allowed == "delete" \in g_fileinfo[fd].access
        stream == g_fileinfo[fd].pdir # Nothing
        mark == [g_fileinfo EXCEPT ![fd].delete_on_close = TRUE]
    IN  /\ Stamp(TRUE)
        /\ Kept /\ UNCHANGED watches
        /\ IF allowed /\ stream
           THEN Acts(fd, {}, ByPath(fd)) /\ running' = (directory \in Directories)
           ELSE Acts(fd, {}, {}) /\ UNCHANGED running
        /\ IF allowed /\ (stream => directory \in Directories \ filled)
           THEN g_fileinfo' = mark /\ wanted' = wanted \cup {fd}
           ELSE UNCHANGED <<g_fileinfo, wanted>>

\* disk_query_volume_information asks statfs, by the name.
QueryVolume(fd) ==
    /\ Acts(fd, {}, ByPath(fd))
    /\ Kept /\ UNCHANGED <<g_fileinfo, g_notify_stamp, watches, running, wanted>>

\* The server lists directories only.  Names come from the stream, what they
\* stand for from the name of the directory.
disk_query_directory(fd) ==
    /\ g_fileinfo[fd].pdir # Nothing
    /\ Acts(fd, ByStream(fd), ByPath(fd))
    /\ Kept /\ UNCHANGED <<g_fileinfo, g_notify_stamp, watches, running, wanted>>

\* NotifyInfo takes the times of the directory by the descriptor and reads its
\* entries by the name; for a descriptor that is closed it fails.
NotifyInfo(fd) ==
    [acted |-> ByHandle(fd) \ {Nothing},
     named |-> IF opened[fd] = Nothing THEN {} ELSE ByPath(fd)]

\* The server watches directories only.  For some classes, and if the name is
\* gone, there is no waiting.
disk_create_notify(fd) ==
    /\ opened[fd] \in Directories
    /\ OneWatch => \A i \in DOMAIN watches : watches[i].fd # fd
    /\ Acts(fd, NotifyInfo(fd).acted, NotifyInfo(fd).named)
    /\ \/ /\ drive[PathOf(fd)] \in Directories /\ Len(watches) < MaxWatches
          /\ watches' = Append(watches, [fd |-> fd, object |-> opened[fd]])
       \/ UNCHANGED watches
    /\ Kept /\ UNCHANGED <<g_fileinfo, g_notify_stamp, running, wanted>>

\* One pass of _rdpdr_check_fds: the first request takes the stamp.  For the
\* slot of a file it is answered without looking.
disk_check_notify ==
    /\ watches # <<>> /\ g_notify_stamp
    /\ g_notify_stamp' = FALSE
    /\ LET watch == Head(watches)
           looked == g_fileinfo[watch.fd].pdir # Nothing
           info == NotifyInfo(watch.fd)
       IN  /\ last' = Acted(watch.object, IF looked THEN info.acted ELSE {},
                              IF looked THEN info.named ELSE {}, watch.fd \in moved,
                              FALSE, FALSE)
           /\ watches' \in {watches, Tail(watches)}
           /\ ~looked \/ opened[watch.fd] = Nothing => watches' = Tail(watches)
    /\ Kept /\ UNCHANGED <<g_fileinfo, running, wanted>>

\* Other programs, and the server by longer names, use the drive.
Elsewhere(path) ==
    /\ last' = NoAct
    /\ \/ /\ drive[path] \in Directories
          /\ filled' \in {filled \cup {drive[path]}, filled \ {drive[path]}}
          /\ UNCHANGED <<drive, moved>>
       \/ /\ \E object \in (Objects \ InUse) \cup {Nothing} :
                 /\ drive[path] \in filled => object = drive[path]
                 /\ Renamed([drive EXCEPT ![path] = object])
          /\ UNCHANGED filled
    /\ UNCHANGED <<opened, g_fileinfo, g_notify_stamp, watches, running, wanted>>

\* The requests of the server for a descriptor.
Requests(fd) ==
    \/ disk_close(fd) \/ Transfer(fd) \/ SetBasic(fd) \/ SetEnd(fd) \/ Dispose(fd)
    \/ QueryVolume(fd) \/ disk_query_directory(fd) \/ disk_create_notify(fd)
    \/ \E new \in Paths : Rename(fd, new)

UnixDiskNext ==
    /\ running
    /\ \/ \E opening \in Openings, disposition \in Dispositions : disk_create(opening, disposition)
       \/ \E fd \in Open : Requests(fd)
       \/ disk_check_notify
       \/ \E path \in Paths : Elsewhere(path)

UnixDiskSpec == UnixDiskInit /\ [][UnixDiskNext]_unixDiskVars

-----------------------------------------------------------------------------
(* Properties *)

UnixDiskTypeOK ==
    /\ drive \in [Paths -> Objects \cup {Nothing}] /\ filled \subseteq Directories
    /\ opened \in [Fds -> Objects \cup {Nothing}]
    /\ g_fileinfo \in [Fds -> FileInfo]
    /\ g_notify_stamp \in BOOLEAN /\ running \in BOOLEAN
    /\ watches \in Seq([fd : Fds, object : Directories]) /\ Len(watches) <= MaxWatches
    /\ moved \subseteq Fds /\ wanted \subseteq Fds

\* A request acts on the file its handle was opened for, and on no other by
\* what an earlier opening left in the slot of the number; by the name too, as
\* long as the name was given to nothing else.  Closing a handle removes a
\* file only if the server asked for that since it opened the handle ("it will
\* be deleted when the file is closed"), even after a close that failed halfway
\* and left its mark.
ActsOnItsFile ==
    /\ last.acted \subseteq {last.object}
    /\ last.moved \/ last.named \subseteq {last.object}
    /\ last.removed => last.asked
=============================================================================
