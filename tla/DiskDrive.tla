----------------------------- MODULE DiskDrive ------------------------------
(***************************************************************************)
(* A redirected drive: os2/disk.c, and the requests of rdpdr.c that wait   *)
(* for a change of a directory.  The server opens handles (RDFILE); the    *)
(* handles of one path share one record of the open file (OSFILE), which   *)
(* keeps the only handle of the operating system.                          *)
(*                                                                         *)
(* The drive is one directory, Root, with files and empty directories in   *)
(* it.  Data, sizes and times are left out, except that they make a watch  *)
(* of the directory stale; so are attributes other than "read only", which *)
(* the code takes off a file as long as it is open.                        *)
(***************************************************************************)
EXTENDS Integers, FiniteSets, Sequences

CONSTANTS
    Root,         \* the path of the drive itself
    Names,        \* paths below it
    Files,        \* identities of files
    MaxHandles,   \* bounds the table papRDFiles, which grows without limit
    MaxWatches,   \* bounds the requests that wait for a change
    Opens,        \* what the server asks for: a path and its kind, rights for
                  \* itself ("R", "W", "D" to delete) and for others
    Null,         \* no record
    RenameOver    \* does the server rename onto names that exist?

Rights == {"R", "W", "D"}

ASSUME NameAssumption == Root \notin Names
ASSUME HandleAssumption == MaxHandles \in Nat
ASSUME WatchAssumption == MaxWatches \in Nat
ASSUME RenameAssumption == RenameOver \in BOOLEAN


Absent == "absent"
Directory == "directory"
Closed == "closed"     \* a handle of the operating system that is not valid any more

ASSUME FileAssumption == {Absent, Directory, Closed} \cap Files = {}

VARIABLES
    disk,             \* what is at each path
    readonly,         \* the files with the attribute "read only", on the disk
    osfiles,          \* lsOSFiles
    rdfiles,          \* papRDFiles
    searches,         \* searches open in the operating system, by the handle they began on
    g_notify_stamp,
    watches,          \* the IRP_MJ_DIRECTORY_CONTROL requests of g_iorequest
    wanted,           \* the files that the server, or the owner, wants read only
    running

diskVars == <<disk, readonly, wanted>>
vars == <<diskVars, osfiles, rdfiles, searches, g_notify_stamp, watches, running>>

Handles == 0..(MaxHandles - 1)
Paths == {Root} \cup Names
Dispositions ==
    {"CREATE_ALWAYS", "CREATE_NEW", "OPEN_ALWAYS", "TRUNCATE_EXISTING", "OPEN_EXISTING"}
Kinds == {"any", "file", "directory"}   \* FILE_NON_DIRECTORY_FILE, FILE_DIRECTORY_FILE

ASSUME OpenAssumption ==
    Opens \subseteq [name : Paths, kind : Kinds, access : SUBSET Rights, share : SUBSET Rights]

\* "gone" says that the server closed the handle, whatever became of that.
\* An OSFILE: "hFile" is Directory where the code has NULLHANDLE, "attribute"
\* is FILE_READONLY in ulAttribute.
OsFiles == [name : Paths, hFile : Files \cup {Directory, Closed}, attribute : BOOLEAN,
            ulOpenCount : Nat]
RdFiles == [pOSFile : Handles, access : SUBSET Rights, share : SUBSET Rights,
            fDeleteOnClose : BOOLEAN, hDir : BOOLEAN, gone : BOOLEAN]

ASSUME NullAssumption == Null \notin OsFiles \cup RdFiles

InUse == {o \in Handles : osfiles[o] # Null}
Valid == {h \in Handles : rdfiles[h] # Null}
Of(h) == osfiles[rdfiles[h].pOSFile]
IsDir(osfile) == osfile.hFile = Directory
OpenedAt(name) == {o \in InUse : osfiles[o].name = name}
UsersOf(o) == {h \in Valid : rdfiles[h].pOSFile = o}
First(S) == CHOOSE i \in S : \A j \in S : i <= j

Init ==
    /\ disk \in [Paths -> Files \cup {Absent, Directory}]
    /\ \A p \in Paths : disk[p] = Directory <=> p = Root
    /\ \A p, q \in Names : disk[p] = disk[q] /\ p # q => disk[p] = Absent
    /\ readonly \in SUBSET {disk[p] : p \in {q \in Names : disk[q] # Absent}}
    /\ wanted = readonly
    /\ osfiles = [o \in Handles |-> Null]
    /\ rdfiles = [h \in Handles |-> Null]
    /\ searches = [h \in Handles |-> 0]
    /\ g_notify_stamp = FALSE
    /\ watches = <<>>
    /\ running = TRUE

-----------------------------------------------------------------------------
(* Watches of the directory *)

\* Whatever changes in the drive makes the watches of Root stale.
Changed(list) ==
    [i \in DOMAIN list |-> [list[i] EXCEPT !.stale = @ \/ list[i].name = Root]]

\* The snapshot belongs to the handle: its requests share it.
Refreshed(list, h) ==
    [i \in DOMAIN list |-> [list[i] EXCEPT !.stale = @ /\ list[i].handle # h]]

\* rdpdr_abort_io ends the first request of a handle.
Aborted(list, h) ==
    LET mine == {i \in DOMAIN list : list[i].handle = h}
    IN  IF mine = {} THEN list
        ELSE SubSeq(list, 1, First(mine) - 1) \o SubSeq(list, First(mine) + 1, Len(list))

disk_create_notify(h) ==
    /\ Len(watches) < MaxWatches
    /\ disk[Of(h).name] # Absent
    /\ watches' = Append(Refreshed(watches, h),
                         [handle |-> h, name |-> Of(h).name, stale |-> FALSE])
    /\ UNCHANGED <<diskVars, osfiles, rdfiles, searches, g_notify_stamp>>

\* Mutant: only a directory that is gone completes a watch.
CompleteGone(watch) ==
    watch.handle \notin Valid \/ disk[Of(watch.handle).name] = Absent

\* disk_check_notify for the first request: is it complete?
Complete(watch) ==
    watch.handle \notin Valid \/ disk[Of(watch.handle).name] = Absent \/ watch.stale

\* One pass of rdpdr_check_fds: the first request takes the stamp, so that no
\* other is looked at.
CheckNotify ==
    /\ watches # <<>> /\ g_notify_stamp
    /\ g_notify_stamp' = FALSE
    /\ watches' = IF Complete(Head(watches))
                  THEN Tail(Refreshed(watches, Head(watches).handle))
                  ELSE watches
    /\ UNCHANGED <<diskVars, osfiles, rdfiles, searches>>

-----------------------------------------------------------------------------
(* Opening *)

Reads(access) == "R" \in access
Writes(access) == "W" \in access

\* Mutant: what the new handle denies to the old ones is not tested.
ViolatesOld(h, access, share) ==
    \E right \in {"R", "W"} : right \in access /\ right \notin rdfiles[h].share

\* The two tests for a sharing violation, against one handle of the file.
Violates(h, access, share) ==
    \/ \E right \in {"R", "W"} : right \in access /\ right \notin rdfiles[h].share
    \/ \E right \in {"R", "W"} : right \in rdfiles[h].access /\ right \notin share

\* A file that RD has open already.
MayJoin(o, access, share, disposition, kind) ==
    /\ disposition \notin {"CREATE_ALWAYS", "CREATE_NEW"}
    /\ IF IsDir(osfiles[o])
       THEN kind # "file"
       ELSE kind # "directory" /\ ~(osfiles[o].attribute /\ Writes(access))
    /\ \A h \in UsersOf(o) : ~Violates(h, access, share)

\* A new handle on the open file o; the first free index of the table.
NewHandle(o, opened, access, share) ==
    /\ Valid # Handles
    /\ rdfiles' = [rdfiles EXCEPT ![First(Handles \ Valid)] =
                      [pOSFile |-> o, access |-> access, share |-> share,
                       fDeleteOnClose |-> FALSE, hDir |-> FALSE, gone |-> FALSE]]
    /\ osfiles' = [osfiles EXCEPT ![o] = [opened EXCEPT !.ulOpenCount = @ + 1]]
    /\ g_notify_stamp' = (g_notify_stamp \/ Writes(access))
    /\ UNCHANGED searches

Join(name, access, share, disposition, kind) ==
    \E o \in OpenedAt(name) :
        /\ MayJoin(o, access, share, disposition, kind)
        /\ NewHandle(o, osfiles[o], access, share)
        /\ UNCHANGED <<diskVars, watches>>

NewRecord(name, hFile, attribute) ==
    [name |-> name, hFile |-> hFile, attribute |-> attribute, ulOpenCount |-> 0]

OpenDirectory(name, access, share, disposition, kind) ==
    /\ \/ disk[name] = Directory /\ disposition # "CREATE_NEW" /\ kind # "file"
       \/ disk[name] = Absent /\ disposition # "OPEN_EXISTING" /\ kind = "directory"
    /\ disk' = [disk EXCEPT ![name] = Directory]
    /\ watches' = IF disk[name] = Absent THEN Changed(watches) ELSE watches
    /\ \E o \in Handles \ InUse :
           /\ o = First(Handles \ InUse)
           /\ NewHandle(o, NewRecord(name, Directory, FALSE), access, share)
    /\ UNCHANGED <<readonly, wanted>>

\* The tests before DosOpen, for what is not and what is on the disk.
MayOpenFile(name, access, disposition, kind) ==
    \/ /\ disk[name] = Absent
       /\ kind # "directory"
       /\ disposition \notin {"OPEN_EXISTING", "TRUNCATE_EXISTING"}
    \/ /\ disk[name] \in Files
       /\ kind # "directory"
       /\ disposition # "CREATE_NEW"
       /\ ~(disk[name] \in readonly /\ Writes(access))

\* The file that DosOpen opens or creates; it denies all sharing.
FileAt(name) == IF disk[name] \in Files THEN disk[name]
                ELSE CHOOSE f \in Files : \A p \in Paths : disk[p] # f
Sharable(f) == \A o \in InUse : osfiles[o].hFile # f

\* The attribute comes off before DosOpen.
OpenFile(name, access, share, disposition, kind) ==
    /\ MayOpenFile(name, access, disposition, kind)
    /\ disk[name] = Absent => \E f \in Files : \A p \in Paths : disk[p] # f
    /\ \E f \in {FileAt(name)}, o \in Handles \ InUse :
           /\ Sharable(f)
           /\ o = First(Handles \ InUse)
           /\ disk' = [disk EXCEPT ![name] = f]
           /\ readonly' = readonly \ {f}
           /\ NewHandle(o, NewRecord(name, f, f \in readonly), access, share)
    /\ watches' = IF disk[name] = Absent THEN Changed(watches) ELSE watches
    /\ UNCHANGED wanted

\* Mutant: the attribute is not put back.
KeptOff(attributes, f) == attributes \ {f}

\* DosOpen refuses, because another program has the file; the attribute that
\* came off for it is put back.
PutBack(attributes, f) == attributes

OpenRefused(name, access, disposition, kind) ==
    /\ MayOpenFile(name, access, disposition, kind)
    /\ disk[name] \in Files
    /\ readonly' = PutBack(readonly, disk[name])
    /\ UNCHANGED <<disk, wanted, osfiles, rdfiles, searches, g_notify_stamp, watches>>

disk_create(name, access, share, disposition, kind) ==
    \/ Join(name, access, share, disposition, kind)
    \/ /\ OpenedAt(name) = {}
       /\ \/ OpenDirectory(name, access, share, disposition, kind)
          \/ OpenFile(name, access, share, disposition, kind)
          \/ OpenRefused(name, access, disposition, kind)

-----------------------------------------------------------------------------
(* Closing *)

\* Mutant: the count reaches zero and the file stays in the list.
ReleasedLate(o) == [osfiles EXCEPT ![o].ulOpenCount = @ - 1]

\* _osfClose
Released(o) ==
    [osfiles EXCEPT ![o] = IF osfiles[o].ulOpenCount = 1 THEN Null
                           ELSE [osfiles[o] EXCEPT !.ulOpenCount = @ - 1]]

\* Mutant: a search is forgotten, not closed.
FindForget(h) == searches

\* DosFindClose; on a handle that is closed already it does nothing.
FindClose(h) == [searches EXCEPT ![h] = IF @ = 0 THEN 0 ELSE @ - 1]

\* What every close does before it looks at the file.
Leave(h) ==
    /\ g_notify_stamp' = (g_notify_stamp \/ Writes(rdfiles[h].access))
    /\ searches' = IF rdfiles[h].hDir THEN FindClose(h) ELSE searches

Freed(h) == [rdfiles EXCEPT ![h] = Null]

\* The last handle of a file that is not to be deleted gives the attribute
\* back; DosSetFileInfo works on the open file.
Restored(osfile) ==
    IF osfile.attribute /\ osfile.hFile \in Files THEN readonly \cup {osfile.hFile}
    ELSE readonly

CloseLast(h) ==
    /\ Of(h).ulOpenCount = 1 /\ ~rdfiles[h].fDeleteOnClose
    /\ Leave(h)
    /\ readonly' = Restored(Of(h))
    /\ osfiles' = Released(rdfiles[h].pOSFile)
    /\ rdfiles' = Freed(h)
    /\ watches' = Aborted(watches, h)
    /\ UNCHANGED <<disk, wanted>>

CloseDelete(h) ==
    /\ Of(h).ulOpenCount = 1 /\ rdfiles[h].fDeleteOnClose
    /\ Leave(h)
    /\ disk' = [disk EXCEPT ![Of(h).name] = Absent]
    /\ wanted' = wanted \ {disk[Of(h).name]}
    /\ readonly' = readonly \ {disk[Of(h).name]}
    /\ osfiles' = Released(rdfiles[h].pOSFile)
    /\ rdfiles' = Freed(h)
    /\ watches' = Changed(Aborted(watches, h))

CloseOneOf(h) ==
    /\ Of(h).ulOpenCount > 1 /\ ~rdfiles[h].fDeleteOnClose
    /\ Leave(h)
    /\ osfiles' = Released(rdfiles[h].pOSFile)
    /\ rdfiles' = Freed(h)
    /\ watches' = Aborted(watches, h)
    /\ UNCHANGED diskVars

\* A delete that cannot be done, because of other handles or because the
\* directory is not empty: the close is refused and the handle stays, with a
\* search that is closed.  The server has no use for the handle any more.
CloseRefused(h) ==
    /\ rdfiles[h].fDeleteOnClose
    /\ Of(h).ulOpenCount > 1 \/ IsDir(Of(h))
    /\ Leave(h)
    /\ rdfiles' = [rdfiles EXCEPT ![h].fDeleteOnClose = FALSE, ![h].gone = TRUE]
    /\ watches' = Aborted(watches, h)
    /\ UNCHANGED <<diskVars, osfiles>>

disk_close(h) == CloseLast(h) \/ CloseDelete(h) \/ CloseOneOf(h) \/ CloseRefused(h)

-----------------------------------------------------------------------------
(* Working with a handle *)

\* disk_query_directory: a pattern starts a new search, which may find nothing;
\* without one the search goes on, until it finds no more.
QueryDirectory(h) ==
    /\ IsDir(Of(h))
    /\ \/ \E found \in BOOLEAN :
              /\ searches' = LET closed == IF rdfiles[h].hDir THEN FindClose(h) ELSE searches
                             IN  IF found THEN [closed EXCEPT ![h] = @ + 1] ELSE closed
              /\ rdfiles' = [rdfiles EXCEPT ![h].hDir = found]
       \/ /\ rdfiles[h].hDir
          /\ searches' = FindClose(h)
          /\ rdfiles' = [rdfiles EXCEPT ![h].hDir = FALSE]
    /\ UNCHANGED <<diskVars, osfiles, g_notify_stamp, watches>>

\* disk_write, and DosSetFileSize in disk_set_information, which unlike a
\* write tells the watches.
WriteFile(h) ==
    /\ Of(h).hFile \in Files /\ Writes(rdfiles[h].access)
    /\ watches # <<>>
    /\ watches' = Changed(watches)
    /\ \E stamp \in BOOLEAN : g_notify_stamp' = (g_notify_stamp \/ stamp)
    /\ UNCHANGED <<diskVars, osfiles, rdfiles, searches>>

\* FileBasicInformation: "read only" is noted only, until the file is closed.
SetAttribute(h, attribute) ==
    /\ Of(h).hFile \in Files
    /\ osfiles' = [osfiles EXCEPT ![rdfiles[h].pOSFile].attribute = attribute]
    /\ readonly' = readonly \ {Of(h).hFile}
    /\ wanted' = IF attribute THEN wanted \cup {Of(h).hFile} ELSE wanted \ {Of(h).hFile}
    /\ g_notify_stamp' = TRUE
    /\ UNCHANGED <<disk, rdfiles, searches, watches>>

\* FileRenameInformation.  The file is closed, moved, and what is at the new
\* name is opened; DosMove refuses a name that is in use, DosOpen a file that
\* is open and a directory.
\* Mutant: the record keeps the old path.
KeepsPath(moves, old, new) == old

Renamed(moves, old, new) == IF moves THEN new ELSE old

Moved(old, new) == [disk EXCEPT ![new] = disk[old], ![old] = Absent]
Reopened(after, new) ==
    IF after[new] \in Files /\ Sharable(after[new]) THEN after[new] ELSE Closed

Rename(h, new) ==
    /\ Of(h).name # new
    /\ disk[new] # Absent => RenameOver
    /\ \E o \in {rdfiles[h].pOSFile},
          moves \in {disk[new] = Absent /\ disk[Of(h).name] # Absent /\ Of(h).name # Root} :
           LET after == IF moves THEN Moved(Of(h).name, new) ELSE disk
               hFile == IF IsDir(osfiles[o]) THEN Directory
                        ELSE IF after[new] = Of(h).hFile THEN Of(h).hFile
                        ELSE Reopened(after, new)
           IN  /\ disk' = after
               /\ osfiles' = [osfiles EXCEPT ![o].name = Renamed(moves, @, new),
                                             ![o].hFile = hFile]
               /\ watches' = IF moves THEN Changed(watches) ELSE watches
    /\ g_notify_stamp' = TRUE
    /\ UNCHANGED <<readonly, wanted, rdfiles, searches>>

\* FileDispositionInformation: the directory must be empty.
Dispose(h) ==
    /\ g_notify_stamp' = TRUE
    /\ rdfiles' = [rdfiles EXCEPT ![h].fDeleteOnClose =
                      @ \/ ("D" \in rdfiles[h].access /\ Of(h).name # Root)]
    /\ UNCHANGED <<diskVars, osfiles, searches, watches>>

disk_set_information(h) ==
    \/ \E attribute \in BOOLEAN : SetAttribute(h, attribute)
    \/ \E new \in Names : Rename(h, new)
    \/ Dispose(h)

\* The end of the program closes the files, and leaves the searches to the
\* operating system.
disk_done ==
    /\ running' = FALSE
    /\ rdfiles' = [h \in Handles |-> Null]
    /\ osfiles' = [o \in Handles |-> Null]
    /\ UNCHANGED <<diskVars, searches, g_notify_stamp, watches>>

-----------------------------------------------------------------------------

\* A request of the server for a handle it has.
Request(h) ==
    \/ disk_close(h)
    \/ QueryDirectory(h)
    \/ WriteFile(h)
    \/ disk_set_information(h)
    \/ disk_create_notify(h)

Create ==
    \E open \in Opens, disposition \in Dispositions :
        disk_create(open.name, open.access, open.share, disposition, open.kind)

Next ==
    /\ running
    /\ \/ (Create \/ \E h \in Valid : ~rdfiles[h].gone /\ Request(h)) /\ UNCHANGED running
       \/ CheckNotify /\ UNCHANGED running
       \/ disk_done

Spec == Init /\ [][Next]_vars

\* ui_select calls rdpdr_check_fds again and again.
FairSpec == Spec /\ WF_vars(running /\ CheckNotify /\ UNCHANGED running)

-----------------------------------------------------------------------------
(* Properties *)

\* Types, and the bounds named above.
TypeOK ==
    /\ disk \in [Paths -> Files \cup {Absent, Directory}]
    /\ readonly \subseteq Files /\ wanted \subseteq Files
    /\ osfiles \in [Handles -> OsFiles \cup {Null}]
    /\ rdfiles \in [Handles -> RdFiles \cup {Null}]
    /\ searches \in [Handles -> Nat]
    /\ g_notify_stamp \in BOOLEAN
    /\ watches \in Seq([handle : Handles, name : Paths, stale : BOOLEAN])
    /\ running \in BOOLEAN

\* The open file lives exactly as long as handles refer to it, and one path
\* has one open file: neither is a file closed under a handle, nor left open
\* without one (the counting of disk_create, disk_close and _osfClose).  Nor is
\* a search of the system left open (disk_query_directory, disk_close).
FilesCounted ==
    /\ \A h \in Valid : rdfiles[h].pOSFile \in InUse
    /\ \A o \in InUse : osfiles[o].ulOpenCount = Cardinality(UsersOf(o))
                        /\ osfiles[o].ulOpenCount > 0
    /\ \A o, p \in InUse : osfiles[o].name = osfiles[p].name => o = p
    /\ running => \A h \in Handles :
          searches[h] <= IF h \in Valid /\ rdfiles[h].hDir THEN 1 ELSE 0

\* No two handles of a file have rights that one of them denied the other, in
\* whatever order they came (the sharing tests of disk_create).
SharingKept ==
    \A h, k \in Valid :
        h # k /\ rdfiles[h].pOSFile = rdfiles[k].pOSFile =>
            \A right \in {"R", "W"} :
                right \in rdfiles[h].access => right \in rdfiles[k].share

\* An open file is shared by the handles that count for it, and by no others,
\* within the rights they gave each other.
FilesShared == FilesCounted /\ SharingKept

\* "Read only" comes off a file while it is open; once nobody has it open, it
\* has the attribute again if it had it, or was given it since (disk_create
\* takes it off, disk_close gives it back, a refused DosOpen as well).
ReadOnlyKept ==
    running => \A name \in Names :
        disk[name] \in Files /\ OpenedAt(name) = {} =>
            (disk[name] \in readonly <=> disk[name] \in wanted)

\* A handle reads and writes the file whose path it was opened with, through
\* every rename (disk_set_information closes, moves and reopens).
HandleMeansItsFile ==
    \A o \in InUse : disk[osfiles[o].name] = osfiles[o].hFile

\* Is the request that has waited longest one of h, with a change to report?
Waiting(h) == watches # <<>> /\ Head(watches).handle = h /\ Head(watches).stale

\* A change of which rdpdr was told is reported to the request that has
\* waited longest (rdpdr_check_fds looks at no other).
FirstWatchTold ==
    \A h \in Handles :
        (running /\ g_notify_stamp /\ Waiting(h)) ~> (~running \/ ~Waiting(h))

=============================================================================
