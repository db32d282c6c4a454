----------------------------- MODULE DiskProofs -----------------------------
(***************************************************************************)
(* Proofs about DiskDrive, for every set of names and files, every size of *)
(* the table of handles and everything a server may ask for.  Counting is  *)
(* the inductive invariant of the handles and the open files they share;   *)
(* Meaning, that of the files themselves, holds as long as no file is      *)
(* renamed onto a name that exists.                                        *)
(*                                                                         *)
(* And why nobody who asks for the clipboard is forgotten, in XClipboard.  *)
(* A request of a program that pastes is in the queue of events or at the  *)
(* server, in one place only (Known).  While the server waits, and neither *)
(* a probe nor a long text crossed its request, an answer is to come that  *)
(* is no timestamp, or every timestamp that is missing (Sure): handling    *)
(* one notification answers the server or asks for the next.               *)
(***************************************************************************)
EXTENDS DiskDrive, XClipboard, ProofLemmas

\* The drive has what is open: a path of an open file is a path of the disk.
OpenPresent == \A o \in InUse : disk[osfiles[o].name] # Absent

\* The three parts of FilesCounted that hold also after the end.
Referred == \A h \in Valid : rdfiles[h].pOSFile \in InUse
Counts ==
    \A o \in InUse : osfiles[o].ulOpenCount = Cardinality(UsersOf(o)) /\ osfiles[o].ulOpenCount > 0
OneForPath == \A o, p \in InUse : osfiles[o].name = osfiles[p].name => o = p

\* A search is open only as long as its handle says so.
SearchesHeld ==
    running => \A h \in Handles : searches[h] <= IF h \in Valid /\ rdfiles[h].hDir THEN 1 ELSE 0

\* The inductive invariant of handles and open files.
Counting ==
    /\ TypeOK
    /\ OpenPresent
    /\ Referred /\ Counts /\ OneForPath
    /\ SearchesHeld
    /\ SharingKept

\* The drive itself is there, and no handle deletes it.
RootStays ==
    /\ disk[Root] = Directory
    /\ \A h \in Valid : rdfiles[h].fDeleteOnClose => Of(h).name # Root

\* A file is at one path, and the attributes are those of files on the disk.
FilesOnDisk ==
    /\ \A p, q \in Paths : disk[p] \in Files /\ disk[p] = disk[q] => p = q
    /\ \A f \in readonly \cup wanted : \E p \in Paths : disk[p] = f

\* An open file is not read only on the disk; its record knows what it is to be.
AttributeNoted ==
    \A o \in InUse : osfiles[o].hFile \in Files =>
        /\ osfiles[o].hFile \notin readonly
        /\ osfiles[o].attribute <=> osfiles[o].hFile \in wanted

\* The inductive invariant of the files, on top of Counting.
Meaning ==
    /\ RootStays
    /\ FilesOnDisk
    /\ AttributeNoted
    /\ HandleMeansItsFile
    /\ ReadOnlyKept

-----------------------------------------------------------------------------
(* Operators *)

\* The first place of a set of places is one of them.
LEMMA FirstIn == ASSUME NEW S \in SUBSET Nat, S # {} PROVE First(S) \in S
BY Smallest DEF First

\* The table of handles is finite, and so are the handles of a file.
LEMMA UsersFinite == \A o : UsersOf(o) \subseteq Handles /\ IsFiniteSet(UsersOf(o))
<1>1. IsFiniteSet(Handles)
    BY HandleAssumption, FS_Interval DEF Handles
<1>2. \A o : UsersOf(o) \in SUBSET Handles
    BY DEF UsersOf, Valid
<1> QED
    BY <1>1, <1>2, FS_Subset

\* The requests that wait for a change.
Watch == [handle : Handles, name : Paths, stale : BOOLEAN]

\* A change marks requests, and does not change their list otherwise.
LEMMA ChangedType == \A list \in Seq(Watch) : Changed(list) \in Seq(Watch)
<1> SUFFICES ASSUME NEW list \in Seq(Watch) PROVE Changed(list) \in Seq(Watch)
    OBVIOUS
<1>1. \A i \in 1..Len(list) : list[i] \in Watch
    BY ElementOfSeq
<1>2. Len(list) \in Nat /\ DOMAIN list = 1..Len(list)
    BY LenProperties
<1>3. Changed(list) \in [1..Len(list) -> Watch]
    BY <1>1, <1>2 DEF Changed, Watch
<1> QED
    BY <1>2, <1>3, SeqOfLength

\* So does a new snapshot of the directory.
LEMMA RefreshedType == \A list \in Seq(Watch) : \A h : Refreshed(list, h) \in Seq(Watch)
<1> SUFFICES ASSUME NEW list \in Seq(Watch), NEW h PROVE Refreshed(list, h) \in Seq(Watch)
    OBVIOUS
<1>1. \A i \in 1..Len(list) : list[i] \in Watch
    BY ElementOfSeq
<1>2. Len(list) \in Nat /\ DOMAIN list = 1..Len(list)
    BY LenProperties
<1>3. Refreshed(list, h) \in [1..Len(list) -> Watch]
    BY <1>1, <1>2 DEF Refreshed, Watch
<1> QED
    BY <1>2, <1>3, SeqOfLength

\* Aborting a request of a handle leaves the others in the list.
LEMMA AbortedType == \A list \in Seq(Watch) : \A h : Aborted(list, h) \in Seq(Watch)
<1> SUFFICES ASSUME NEW list \in Seq(Watch), NEW h PROVE Aborted(list, h) \in Seq(Watch)
    OBVIOUS
<1> DEFINE mine == {i \in DOMAIN list : list[i].handle = h}
<1>1. CASE mine = {}
    BY <1>1 DEF Aborted
<1>2. CASE mine # {}
  <2>1. Len(list) \in Nat /\ DOMAIN list = 1..Len(list)
    BY LenProperties
  <2>2. mine \in SUBSET Nat
    BY <2>1
  <2>3. First(mine) \in mine
    BY <1>2, <2>2, FirstIn
  <2> DEFINE i == First(mine)
  <2>4. i \in 1..Len(list)
    BY <2>1, <2>3
  <2> HIDE DEF i
  <2>5. SubSeq(list, 1, i - 1) \in Seq(Watch) /\ SubSeq(list, i + 1, Len(list)) \in Seq(Watch)
    BY <2>1, <2>4, SubSeqType
  <2> QED
    BY <1>2, <2>5, ConcatProperties DEF Aborted, i
<1> QED
    BY <1>1, <1>2

-----------------------------------------------------------------------------
(* What the steps do to handles and open files *)

\* What Counting says of handles and open files, without what is on the disk.
HandlesGood ==
    /\ osfiles \in [Handles -> OsFiles \cup {Null}]
    /\ rdfiles \in [Handles -> RdFiles \cup {Null}]
    /\ searches \in [Handles -> Nat]
    /\ Referred /\ Counts /\ OneForPath
    /\ SearchesHeld
    /\ SharingKept

\* disk_create adds a handle to a file that is open and may be shared, or to a
\* new record: the count of the file is that of its handles again.
LEMMA HandleAdded ==
    ASSUME HandlesGood, NEW o \in Handles, NEW opened \in OsFiles,
           NEW access \in SUBSET Rights, NEW share \in SUBSET Rights,
           NewHandle(o, opened, access, share), running' = running,
           \/ o \in InUse /\ opened = osfiles[o] /\ \A h \in UsersOf(o) : ~Violates(h, access, share)
           \/ o \notin InUse /\ opened.ulOpenCount = 0 /\ OpenedAt(opened.name) = {}
    PROVE  /\ HandlesGood'
           /\ InUse' = InUse \cup {o}
           /\ \A p \in InUse \ {o} : osfiles'[p] = osfiles[p]
           /\ osfiles'[o].name = opened.name /\ osfiles'[o].hFile = opened.hFile
           /\ osfiles'[o].attribute = opened.attribute
           /\ \A h \in Valid' :
                 \/ h \in Valid /\ rdfiles'[h] = rdfiles[h]
                 \/ rdfiles'[h].pOSFile = o /\ ~rdfiles'[h].fDeleteOnClose
<1> DEFINE i == First(Handles \ Valid)
           new == [pOSFile |-> o, access |-> access, share |-> share,
                   fDeleteOnClose |-> FALSE, hDir |-> FALSE, gone |-> FALSE]
           record == [opened EXCEPT !.ulOpenCount = @ + 1]
<1>1. i \in Handles \ Valid
  <2>1. Handles \ Valid # {} /\ Handles \ Valid \in SUBSET Nat
    BY DEF NewHandle, Handles, Valid
  <2> QED
    BY <2>1, FirstIn
<1>2. new \in RdFiles /\ new # Null
  <2>1. new \in RdFiles
    BY DEF RdFiles
  <2> QED
    BY <2>1, NullAssumption
<1>3. record \in OsFiles /\ record # Null /\ record.name = opened.name
      /\ record.hFile = opened.hFile /\ record.attribute = opened.attribute
      /\ record.ulOpenCount = opened.ulOpenCount + 1
    BY NullAssumption DEF OsFiles
<1> HIDE DEF i, new, record
<1>4. rdfiles' = [rdfiles EXCEPT ![i] = new] /\ osfiles' = [osfiles EXCEPT ![o] = record]
    BY DEF NewHandle, i, new, record
<1>5. /\ osfiles' \in [Handles -> OsFiles \cup {Null}]
      /\ rdfiles' \in [Handles -> RdFiles \cup {Null}]
      /\ searches' \in [Handles -> Nat]
  <2>1. searches' = searches
    BY DEF NewHandle
  <2> QED
    BY <1>1, <1>2, <1>3, <1>4, <2>1 DEF HandlesGood
<1>6. Valid' = Valid \cup {i} /\ InUse' = InUse \cup {o}
    BY <1>1, <1>2, <1>3, <1>4 DEF HandlesGood, Valid, InUse
<1>7. new.pOSFile = o /\ new.access = access /\ new.share = share
      /\ new.hDir = FALSE /\ new.fDeleteOnClose = FALSE
    BY DEF new
<1>8. /\ rdfiles'[i] = new /\ \A h \in Valid : rdfiles'[h] = rdfiles[h]
      /\ osfiles'[o] = record /\ \A p \in InUse \ {o} : osfiles'[p] = osfiles[p]
    BY <1>1, <1>4 DEF HandlesGood, Valid, InUse
<1>9. Referred'
    BY <1>6, <1>7, <1>8 DEF HandlesGood, Referred
<1>10. \A p \in InUse' : UsersOf(p)' = IF p = o THEN UsersOf(o) \cup {i} ELSE UsersOf(p)
    BY <1>1, <1>6, <1>7, <1>8 DEF UsersOf
<1>11. Counts'
  <2>1. o \notin InUse => UsersOf(o) = {}
    BY DEF HandlesGood, Referred, UsersOf
  <2>2. opened.ulOpenCount = Cardinality(UsersOf(o)) /\ opened.ulOpenCount \in Nat
    BY <2>1, FS_EmptySet DEF HandlesGood, Counts, OsFiles
  <2>3. Cardinality(UsersOf(o) \cup {i}) = Cardinality(UsersOf(o)) + 1
    <3>1. IsFiniteSet(UsersOf(o)) /\ i \notin UsersOf(o)
      BY <1>1, UsersFinite DEF UsersOf
    <3> QED
      BY <3>1, FS_AddElement
  <2>4. record.ulOpenCount = Cardinality(UsersOf(o) \cup {i}) /\ record.ulOpenCount > 0
    BY <1>3, <2>2, <2>3
  <2> QED
    BY <1>6, <1>8, <1>10, <2>4 DEF HandlesGood, Counts
<1>12. OneForPath'
    BY <1>3, <1>6, <1>8 DEF HandlesGood, OneForPath, OpenedAt
<1>13. SearchesHeld'
    BY <1>1, <1>6, <1>7, <1>8, ZenonT(60) DEF HandlesGood, SearchesHeld, NewHandle
<1>14. SharingKept'
  <2>1. \A h \in Valid : rdfiles[h].pOSFile = o => ~Violates(h, access, share)
    BY DEF HandlesGood, Referred, UsersOf
  <2> QED
    BY <1>1, <1>6, <1>7, <1>8, <2>1 DEF HandlesGood, SharingKept, Violates
<1>15. HandlesGood'
    BY <1>5, <1>9, <1>11, <1>12, <1>13, <1>14 DEF HandlesGood
<1> QED
    BY <1>3, <1>6, <1>7, <1>8, <1>15

\* Closing a handle takes it from the count of its file; the last one ends the
\* record (_osfClose), and its search is closed.
LEMMA HandleRemoved ==
    ASSUME HandlesGood, NEW h \in Valid, Leave(h), running' = running,
           osfiles' = Released(rdfiles[h].pOSFile), rdfiles' = Freed(h)
    PROVE  /\ HandlesGood'
           /\ InUse' = IF Of(h).ulOpenCount = 1 THEN InUse \ {rdfiles[h].pOSFile} ELSE InUse
           /\ \A k \in Valid' : k \in Valid /\ rdfiles'[k] = rdfiles[k]
           /\ \A p \in InUse' : osfiles'[p] = [osfiles[p] EXCEPT !.ulOpenCount = osfiles'[p].ulOpenCount]
<1> DEFINE o == rdfiles[h].pOSFile
           record == [osfiles[o] EXCEPT !.ulOpenCount = @ - 1]
<1>1. h \in Handles /\ rdfiles[h] \in RdFiles /\ o \in InUse /\ o \in Handles
      /\ osfiles[o] \in OsFiles
    BY DEF HandlesGood, Valid, Referred, InUse
<1>2. osfiles[o].ulOpenCount = Cardinality(UsersOf(o)) /\ osfiles[o].ulOpenCount \in Nat \ {0}
    BY <1>1 DEF HandlesGood, Counts, OsFiles
<1>3. record \in OsFiles /\ record # Null /\ record.name = osfiles[o].name
      /\ record.ulOpenCount = osfiles[o].ulOpenCount - 1
  <2>1. record \in OsFiles /\ record.name = osfiles[o].name
        /\ record.ulOpenCount = osfiles[o].ulOpenCount - 1
    BY <1>1, <1>2 DEF OsFiles
  <2> QED
    BY <2>1, NullAssumption
<1>4. record = [osfiles[o] EXCEPT !.ulOpenCount = record.ulOpenCount]
    BY <1>1, <1>3 DEF OsFiles
<1> HIDE DEF o
<1>5. osfiles' = [osfiles EXCEPT ![o] = IF osfiles[o].ulOpenCount = 1 THEN Null ELSE record]
      /\ rdfiles' = [rdfiles EXCEPT ![h] = Null]
  <2>1. osfiles' = Released(o)
    BY DEF o
  <2> QED
    BY <1>1, <2>1 DEF Released, Freed, HandlesGood
<1> HIDE DEF record
<1>6. /\ osfiles' \in [Handles -> OsFiles \cup {Null}]
      /\ rdfiles' \in [Handles -> RdFiles \cup {Null}]
    BY <1>1, <1>3, <1>5 DEF HandlesGood
<1>7. searches' \in [Handles -> Nat]
    BY <1>1 DEF HandlesGood, Leave, FindClose
<1>8. /\ Valid' = Valid \ {h}
      /\ InUse' = IF osfiles[o].ulOpenCount = 1 THEN InUse \ {o} ELSE InUse
    BY <1>1, <1>3, <1>5 DEF HandlesGood, Valid, InUse
<1>9. /\ \A k \in Valid' : rdfiles'[k] = rdfiles[k]
      /\ \A p \in InUse' \ {o} : osfiles'[p] = osfiles[p]
      /\ o \in InUse' => osfiles'[o] = record
    BY <1>1, <1>5, <1>8 DEF HandlesGood, Valid, InUse
<1>10. \A p \in InUse : UsersOf(p)' = IF p = o THEN UsersOf(o) \ {h} ELSE UsersOf(p)
    BY <1>8, <1>9 DEF UsersOf, o
<1>11. /\ IsFiniteSet(UsersOf(o)) /\ h \in UsersOf(o)
       /\ Cardinality(UsersOf(o) \ {h}) = Cardinality(UsersOf(o)) - 1
  <2>1. IsFiniteSet(UsersOf(o)) /\ h \in UsersOf(o)
    BY UsersFinite DEF UsersOf, o
  <2> QED
    BY <2>1, FS_RemoveElement
<1>12. Referred'
  <2>1. ASSUME NEW k \in Valid', rdfiles[k].pOSFile = o PROVE osfiles[o].ulOpenCount # 1
    <3>1. k \in UsersOf(o) \ {h}
      BY <1>8, <2>1 DEF UsersOf
    <3>2. IsFiniteSet(UsersOf(o) \ {h}) /\ UsersOf(o) \ {h} # {}
      BY <1>11, <3>1, FS_RemoveElement
    <3>3. Cardinality(UsersOf(o) \ {h}) # 0
      BY <3>2, FS_EmptySet
    <3> QED
      BY <1>2, <1>11, <3>3
  <2> QED
    BY <1>8, <1>9, <2>1 DEF HandlesGood, Referred
<1>13. Counts'
  <2>1. o \in InUse' => record.ulOpenCount = Cardinality(UsersOf(o) \ {h}) /\ record.ulOpenCount > 0
    BY <1>2, <1>3, <1>8, <1>11
  <2> QED
    BY <1>8, <1>9, <1>10, <2>1, ZenonT(60) DEF HandlesGood, Counts
<1>14. OneForPath'
    BY <1>1, <1>3, <1>8, <1>9 DEF HandlesGood, OneForPath
<1>15. SearchesHeld'
    BY <1>1, <1>8, <1>9 DEF HandlesGood, SearchesHeld, Leave, FindClose
<1>16. SharingKept'
    BY <1>8, <1>9 DEF HandlesGood, SharingKept
<1>17. HandlesGood'
    BY <1>6, <1>7, <1>12, <1>13, <1>14, <1>15, <1>16 DEF HandlesGood
<1>18. \A p \in InUse' : osfiles'[p] = [osfiles[p] EXCEPT !.ulOpenCount = osfiles'[p].ulOpenCount]
  <2>1. \A p \in InUse : osfiles[p] = [osfiles[p] EXCEPT !.ulOpenCount = osfiles[p].ulOpenCount]
    BY DEF HandlesGood, InUse, OsFiles
  <2> QED
    BY <1>4, <1>8, <1>9, <2>1
<1> QED
    BY <1>8, <1>9, <1>17, <1>18 DEF Of, o

\* A step that keeps the handles' files and rights, and the count and the
\* distinct paths of open files, keeps all of it.
LEMMA HandlesKept ==
    ASSUME HandlesGood,
           osfiles' \in [Handles -> OsFiles \cup {Null}],
           rdfiles' \in [Handles -> RdFiles \cup {Null}],
           searches' \in [Handles -> Nat],
           Valid' = Valid, InUse' = InUse,
           \A h \in Valid : /\ rdfiles'[h].pOSFile = rdfiles[h].pOSFile
                            /\ rdfiles'[h].access = rdfiles[h].access
                            /\ rdfiles'[h].share = rdfiles[h].share,
           \A o \in InUse : osfiles'[o].ulOpenCount = osfiles[o].ulOpenCount,
           OneForPath', SearchesHeld'
    PROVE  HandlesGood'
<1>1. Referred'
    BY DEF HandlesGood, Referred
<1>2. \A o : UsersOf(o)' = UsersOf(o)
    BY DEF UsersOf
<1>3. Counts'
    BY <1>2 DEF HandlesGood, Counts
<1>4. SharingKept'
    BY DEF HandlesGood, SharingKept
<1> QED
    BY <1>1, <1>3, <1>4 DEF HandlesGood

\* A step that touches neither handles nor open files keeps all of it.
LEMMA HandlesUntouched ==
    ASSUME HandlesGood, UNCHANGED <<osfiles, rdfiles, searches, running>>
    PROVE  HandlesGood'
<1>1. Valid' = Valid /\ InUse' = InUse
    BY DEF Valid, InUse
<1>2. OneForPath' /\ SearchesHeld'
    BY <1>1 DEF HandlesGood, OneForPath, SearchesHeld
<1> QED
    BY <1>1, <1>2, HandlesKept DEF HandlesGood

-----------------------------------------------------------------------------
(* Counting is inductive: one lemma for each kind of step *)

\* The types of the drive itself, its requests and the rest.
DriveTypeOK ==
    /\ disk \in [Paths -> Files \cup {Absent, Directory}]
    /\ readonly \subseteq Files /\ wanted \subseteq Files
    /\ g_notify_stamp \in BOOLEAN
    /\ watches \in Seq(Watch)
    /\ running \in BOOLEAN

\* Counting is made of what concerns the handles and what concerns the drive.
LEMMA CountingParts ==
    /\ Counting <=> HandlesGood /\ DriveTypeOK /\ OpenPresent
    /\ Counting' <=> HandlesGood' /\ DriveTypeOK' /\ OpenPresent'
BY DEF Counting, HandlesGood, DriveTypeOK, TypeOK, Watch

\* disk_create on a file that is open.
LEMMA JoinCounts ==
    ASSUME Counting, running' = running,
           NEW name, NEW access \in SUBSET Rights, NEW share \in SUBSET Rights,
           NEW disposition, NEW kind, Join(name, access, share, disposition, kind)
    PROVE  Counting'
<1>1. HandlesGood /\ DriveTypeOK /\ OpenPresent
    BY CountingParts
<1>2. PICK o \in OpenedAt(name) :
          /\ MayJoin(o, access, share, disposition, kind)
          /\ NewHandle(o, osfiles[o], access, share)
          /\ UNCHANGED <<diskVars, watches>>
    BY DEF Join
<1>3. o \in InUse /\ o \in Handles /\ osfiles[o] \in OsFiles
    BY <1>1 DEF OpenedAt, InUse, HandlesGood
<1>4. \A h \in UsersOf(o) : ~Violates(h, access, share)
    BY <1>2 DEF MayJoin
<1>5. HandlesGood' /\ InUse' = InUse \cup {o} /\ osfiles'[o].name = osfiles[o].name
      /\ \A p \in InUse \ {o} : osfiles'[p] = osfiles[p]
    BY <1>1, <1>2, <1>3, <1>4, HandleAdded
<1>6. DriveTypeOK'
    BY <1>1, <1>2 DEF DriveTypeOK, NewHandle, diskVars
<1>7. OpenPresent'
    BY <1>1, <1>2, <1>3, <1>5 DEF OpenPresent, diskVars
<1> QED
    BY <1>5, <1>6, <1>7, CountingParts

\* disk_create on a directory that is not open, or that it makes.
LEMMA OpenDirectoryCounts ==
    ASSUME Counting, running' = running, NEW name \in Paths, OpenedAt(name) = {},
           NEW access \in SUBSET Rights, NEW share \in SUBSET Rights,
           NEW disposition, NEW kind, OpenDirectory(name, access, share, disposition, kind)
    PROVE  Counting'
<1>1. HandlesGood /\ DriveTypeOK /\ OpenPresent
    BY CountingParts
<1> DEFINE new == NewRecord(name, Directory, FALSE)
<1>2. PICK o \in Handles \ InUse : NewHandle(o, new, access, share)
    BY DEF OpenDirectory
<1>3. new \in OsFiles /\ new.ulOpenCount = 0 /\ new.name = name
    BY DEF NewRecord, OsFiles
<1> HIDE DEF new
<1>4. HandlesGood' /\ InUse' = InUse \cup {o} /\ osfiles'[o].name = name
      /\ \A p \in InUse \ {o} : osfiles'[p] = osfiles[p]
    BY <1>1, <1>2, <1>3, HandleAdded
<1>5. DriveTypeOK'
  <2>1. watches' \in Seq(Watch)
    BY <1>1, ChangedType DEF OpenDirectory, DriveTypeOK
  <2> QED
    BY <1>1, <1>2, <2>1 DEF OpenDirectory, DriveTypeOK, NewHandle
<1>6. OpenPresent'
  <2>1. disk' = [disk EXCEPT ![name] = Directory] /\ Directory # Absent
    BY DEF OpenDirectory, Directory, Absent
  <2>2. \A p \in InUse' : osfiles'[p].name = name \/ (p \in InUse /\ osfiles'[p] = osfiles[p])
    BY <1>4
  <2> QED
    BY <1>1, <2>1, <2>2 DEF OpenPresent, DriveTypeOK
<1> QED
    BY <1>4, <1>5, <1>6, CountingParts

\* disk_create on a file that is not open, or that it makes.
LEMMA OpenFileCounts ==
    ASSUME Counting, running' = running, NEW name \in Paths, OpenedAt(name) = {},
           NEW access \in SUBSET Rights, NEW share \in SUBSET Rights,
           NEW disposition, NEW kind, OpenFile(name, access, share, disposition, kind)
    PROVE  Counting'
<1>1. HandlesGood /\ DriveTypeOK /\ OpenPresent
    BY CountingParts
<1> DEFINE f == FileAt(name)
           new == NewRecord(name, f, f \in readonly)
<1>2. f \in Files
    BY DEF OpenFile, MayOpenFile, FileAt
<1> HIDE DEF f
<1>3. PICK o \in Handles \ InUse :
          /\ disk' = [disk EXCEPT ![name] = f]
          /\ readonly' = readonly \ {f}
          /\ NewHandle(o, new, access, share)
    BY DEF OpenFile, f
<1>4. new \in OsFiles /\ new.ulOpenCount = 0 /\ new.name = name
    BY <1>2 DEF NewRecord, OsFiles
<1> HIDE DEF new
<1>5. HandlesGood' /\ InUse' = InUse \cup {o} /\ osfiles'[o].name = name
      /\ \A p \in InUse \ {o} : osfiles'[p] = osfiles[p]
    BY <1>1, <1>3, <1>4, HandleAdded
<1>6. DriveTypeOK'
  <2>1. watches' \in Seq(Watch)
    BY <1>1, ChangedType DEF OpenFile, DriveTypeOK
  <2> QED
    BY <1>1, <1>2, <1>3, <2>1 DEF OpenFile, DriveTypeOK, NewHandle
<1>7. OpenPresent'
  <2>1. f # Absent
    BY <1>2, FileAssumption
  <2>2. \A p \in InUse' : osfiles'[p].name = name \/ (p \in InUse /\ osfiles'[p] = osfiles[p])
    BY <1>5
  <2> QED
    BY <1>1, <1>3, <2>1, <2>2 DEF OpenPresent, DriveTypeOK
<1> QED
    BY <1>5, <1>6, <1>7, CountingParts

\* disk_create as a whole.
LEMMA CreateCounts == ASSUME Counting, running' = running, Create PROVE Counting'
<1>1. PICK open \in Opens, disposition \in Dispositions :
          disk_create(open.name, open.access, open.share, disposition, open.kind)
    BY DEF Create
<1>2. open.name \in Paths /\ open.access \in SUBSET Rights /\ open.share \in SUBSET Rights
    BY OpenAssumption
<1>3. CASE Join(open.name, open.access, open.share, disposition, open.kind)
    BY <1>2, <1>3, JoinCounts
<1>4. CASE OpenedAt(open.name) = {}
           /\ OpenDirectory(open.name, open.access, open.share, disposition, open.kind)
    BY <1>2, <1>4, OpenDirectoryCounts
<1>5. CASE OpenedAt(open.name) = {}
           /\ OpenFile(open.name, open.access, open.share, disposition, open.kind)
    BY <1>2, <1>5, OpenFileCounts
<1>6. CASE OpenRefused(open.name, open.access, disposition, open.kind)
  <2>1. HandlesGood'
    BY <1>6, CountingParts, HandlesUntouched DEF OpenRefused
  <2>2. DriveTypeOK' /\ OpenPresent'
    BY <1>6, CountingParts DEF OpenRefused, PutBack, DriveTypeOK, OpenPresent, InUse
  <2> QED
    BY <2>1, <2>2, CountingParts
<1> QED
    BY <1>1, <1>3, <1>4, <1>5, <1>6 DEF disk_create

\* disk_close, done or refused.
LEMMA CloseCounts ==
    ASSUME Counting, running' = running, NEW h \in Valid, disk_close(h) PROVE Counting'
<1>1. HandlesGood /\ DriveTypeOK /\ OpenPresent
    BY CountingParts
<1>2. h \in Handles /\ rdfiles[h] \in RdFiles /\ rdfiles[h].pOSFile \in InUse
      /\ Of(h) \in OsFiles
    BY <1>1 DEF HandlesGood, Valid, Referred, InUse, Of
<1>3. Leave(h)
    BY DEF disk_close, CloseLast, CloseDelete, CloseOneOf, CloseRefused
<1>4. DriveTypeOK'
  <2>1. watches' \in Seq(Watch)
    BY <1>1, AbortedType, ChangedType
    DEF disk_close, CloseLast, CloseDelete, CloseOneOf, CloseRefused, DriveTypeOK
  <2>2. disk' \in [Paths -> Files \cup {Absent, Directory}]
    BY <1>1, <1>2
    DEF disk_close, CloseLast, CloseDelete, CloseOneOf, CloseRefused, DriveTypeOK, diskVars, OsFiles
  <2>3. readonly' \subseteq Files /\ wanted' \subseteq Files
    BY <1>1 DEF disk_close, CloseLast, CloseDelete, CloseOneOf, CloseRefused, DriveTypeOK,
                diskVars, Restored
  <2> QED
    BY <1>1, <1>3, <2>1, <2>2, <2>3 DEF DriveTypeOK, Leave
<1>5. CASE CloseRefused(h)
  <2>1. rdfiles' = [rdfiles EXCEPT ![h] = [rdfiles[h] EXCEPT !.fDeleteOnClose = FALSE, !.gone = TRUE]]
    BY <1>1, <1>2, <1>5 DEF CloseRefused, HandlesGood
  <2> DEFINE record == [rdfiles[h] EXCEPT !.fDeleteOnClose = FALSE, !.gone = TRUE]
  <2>2. /\ record \in RdFiles
        /\ record.pOSFile = rdfiles[h].pOSFile /\ record.access = rdfiles[h].access
        /\ record.share = rdfiles[h].share /\ record.hDir = rdfiles[h].hDir
    BY <1>2 DEF RdFiles
  <2>3. record # Null
    BY <2>2, NullAssumption
  <2> HIDE DEF record
  <2>4. /\ rdfiles' \in [Handles -> RdFiles \cup {Null}] /\ Valid' = Valid
        /\ rdfiles'[h] = record /\ \A k \in Handles \ {h} : rdfiles'[k] = rdfiles[k]
    BY <1>1, <1>2, <2>1, <2>2, <2>3 DEF HandlesGood, Valid, record
  <2>5. osfiles' = osfiles /\ InUse' = InUse /\ UNCHANGED diskVars
    BY <1>5 DEF CloseRefused, InUse
  <2>6. searches' \in [Handles -> Nat]
    BY <1>1, <1>2, <1>3 DEF HandlesGood, Leave, FindClose
  <2>7. SearchesHeld'
    BY <1>1, <1>2, <1>3, <2>2, <2>4 DEF HandlesGood, SearchesHeld, Leave, FindClose, Valid
  <2>8. OneForPath'
    BY <1>1, <2>5 DEF HandlesGood, OneForPath
  <2>9. HandlesGood'
    BY <1>1, <2>2, <2>4, <2>5, <2>6, <2>7, <2>8, HandlesKept DEF HandlesGood, Valid
  <2>10. OpenPresent'
    BY <1>1, <2>5 DEF OpenPresent, diskVars
  <2> QED
    BY <1>4, <2>9, <2>10, CountingParts
<1>6. CASE CloseLast(h) \/ CloseDelete(h) \/ CloseOneOf(h)
  <2>1. osfiles' = Released(rdfiles[h].pOSFile) /\ rdfiles' = Freed(h)
    BY <1>6 DEF CloseLast, CloseDelete, CloseOneOf
  <2>2. /\ HandlesGood'
        /\ InUse' = IF Of(h).ulOpenCount = 1 THEN InUse \ {rdfiles[h].pOSFile} ELSE InUse
        /\ \A p \in InUse' : osfiles'[p] = [osfiles[p] EXCEPT !.ulOpenCount = osfiles'[p].ulOpenCount]
    BY <1>1, <1>3, <2>1, HandleRemoved
  <2>3. \A p \in InUse' : osfiles'[p].name = osfiles[p].name
    BY <1>1, <2>2 DEF HandlesGood, InUse, OsFiles
  <2>4. OpenPresent'
    <3>1. CASE UNCHANGED disk
      BY <1>1, <2>2, <2>3, <3>1 DEF OpenPresent
    <3>2. CASE CloseDelete(h)
      <4>1. disk' = [disk EXCEPT ![Of(h).name] = Absent] /\ InUse' = InUse \ {rdfiles[h].pOSFile}
        BY <2>2, <3>2 DEF CloseDelete
      <4>2. \A p \in InUse' : osfiles[p].name # Of(h).name
        BY <1>1, <1>2, <4>1 DEF HandlesGood, OneForPath, Of
      <4>3. \A p \in InUse' : osfiles[p].name \in Paths
        BY <1>1, <2>2 DEF HandlesGood, InUse, OsFiles
      <4> QED
        BY <1>1, <2>2, <2>3, <4>1, <4>2, <4>3 DEF OpenPresent, DriveTypeOK
    <3> QED
      BY <1>6, <3>1, <3>2 DEF CloseLast, CloseOneOf, diskVars
  <2> QED
    BY <1>4, <2>2, <2>4, CountingParts
<1> QED
    BY <1>5, <1>6 DEF disk_close

\* The other requests for a handle: searching, writing, attributes, deleting.
LEMMA WorkCounts ==
    ASSUME Counting, running' = running, NEW h \in Valid,
           \/ QueryDirectory(h)
           \/ WriteFile(h)
           \/ \E attribute \in BOOLEAN : SetAttribute(h, attribute)
           \/ Dispose(h)
           \/ disk_create_notify(h)
    PROVE  Counting'
<1>1. HandlesGood /\ DriveTypeOK /\ OpenPresent
    BY CountingParts
<1>2. h \in Handles /\ rdfiles[h] \in RdFiles /\ rdfiles[h].pOSFile \in InUse
      /\ rdfiles[h].pOSFile \in Handles /\ Of(h) \in OsFiles
    BY <1>1 DEF HandlesGood, Valid, Referred, InUse, Of
<1>3. CASE QueryDirectory(h)
  <2>1. DriveTypeOK' /\ OpenPresent'
    BY <1>1, <1>3 DEF QueryDirectory, DriveTypeOK, OpenPresent, InUse, diskVars
  <2>2. PICK open \in BOOLEAN :
            /\ rdfiles' = [rdfiles EXCEPT ![h] = [rdfiles[h] EXCEPT !.hDir = open]]
            /\ LET closed == IF rdfiles[h].hDir THEN FindClose(h) ELSE searches
               IN  searches' = IF open THEN [closed EXCEPT ![h] = @ + 1] ELSE closed
    BY <1>1, <1>2, <1>3 DEF QueryDirectory, HandlesGood
  <2> DEFINE record == [rdfiles[h] EXCEPT !.hDir = open]
  <2>3. /\ record \in RdFiles
        /\ record.pOSFile = rdfiles[h].pOSFile /\ record.access = rdfiles[h].access
        /\ record.share = rdfiles[h].share /\ record.hDir = open
    BY <1>2 DEF RdFiles
  <2>4. record # Null
    BY <2>3, NullAssumption
  <2> HIDE DEF record
  <2>5. /\ rdfiles' \in [Handles -> RdFiles \cup {Null}] /\ Valid' = Valid
        /\ rdfiles'[h] = record /\ \A k \in Handles \ {h} : rdfiles'[k] = rdfiles[k]
    BY <1>1, <1>2, <2>2, <2>3, <2>4 DEF HandlesGood, Valid, record
  <2>6. osfiles' = osfiles /\ InUse' = InUse
    BY <1>3 DEF QueryDirectory, InUse
  <2>7. rdfiles'[h].hDir = open
    BY <2>3, <2>5
  <2>8. searches' \in [Handles -> Nat]
    BY <1>1, <1>2, <1>3 DEF HandlesGood, QueryDirectory, FindClose
  <2>9. /\ running => searches[h] <= IF rdfiles[h].hDir THEN 1 ELSE 0
        /\ searches[h] \in Nat
    BY <1>1, <1>2 DEF HandlesGood, SearchesHeld
  <2>10. SearchesHeld'
    BY <1>1, <1>2, <2>2, <2>5, <2>7, <2>9 DEF HandlesGood, SearchesHeld, FindClose, Valid
  <2>11. OneForPath'
    BY <1>1, <2>6 DEF HandlesGood, OneForPath
  <2>12. HandlesGood'
    BY <1>1, <2>3, <2>5, <2>6, <2>8, <2>10, <2>11, HandlesKept DEF HandlesGood, Valid
  <2> QED
    BY <2>1, <2>12, CountingParts
<1>4. CASE WriteFile(h)
  <2>1. HandlesGood'
    BY <1>1, <1>4, HandlesUntouched DEF WriteFile
  <2>2. DriveTypeOK' /\ OpenPresent'
    BY <1>1, <1>4, ChangedType DEF WriteFile, DriveTypeOK, OpenPresent, InUse, diskVars
  <2> QED
    BY <2>1, <2>2, CountingParts
<1>5. ASSUME NEW attribute \in BOOLEAN, SetAttribute(h, attribute) PROVE Counting'
  <2> DEFINE o == rdfiles[h].pOSFile
             record == [osfiles[o] EXCEPT !.attribute = attribute]
  <2>1. osfiles' = [osfiles EXCEPT ![o] = record] /\ rdfiles' = rdfiles /\ searches' = searches
    BY <1>1, <1>2, <1>5 DEF SetAttribute, HandlesGood
  <2>2. record \in OsFiles /\ record.name = osfiles[o].name
        /\ record.ulOpenCount = osfiles[o].ulOpenCount
    BY <1>2 DEF OsFiles, Of
  <2>3. record # Null
    BY <2>2, NullAssumption
  <2> HIDE DEF record
  <2>4. /\ osfiles' \in [Handles -> OsFiles \cup {Null}] /\ InUse' = InUse
        /\ osfiles'[o] = record /\ \A p \in Handles \ {o} : osfiles'[p] = osfiles[p]
    BY <1>1, <1>2, <2>1, <2>2, <2>3 DEF HandlesGood, InUse
  <2>5. Valid' = Valid
    BY <2>1 DEF Valid
  <2>6. OneForPath' /\ SearchesHeld'
    BY <1>1, <2>1, <2>2, <2>4, <2>5 DEF HandlesGood, OneForPath, SearchesHeld, InUse
  <2>7. HandlesGood'
    BY <1>1, <2>1, <2>2, <2>4, <2>5, <2>6, HandlesKept DEF HandlesGood, InUse
  <2>8. DriveTypeOK'
    BY <1>1, <1>2, <1>5 DEF SetAttribute, DriveTypeOK
  <2>9. OpenPresent'
    <3>1. disk' = disk /\ InUse' = InUse /\ \A p \in InUse : osfiles'[p].name = osfiles[p].name
      BY <1>5, <2>2, <2>4 DEF SetAttribute, InUse
    <3> QED
      BY <1>1, <3>1 DEF OpenPresent
  <2> QED
    BY <2>7, <2>8, <2>9, CountingParts
<1>6. CASE Dispose(h)
  <2> DEFINE delete == rdfiles[h].fDeleteOnClose \/ ("D" \in rdfiles[h].access /\ Of(h).name # Root)
             record == [rdfiles[h] EXCEPT !.fDeleteOnClose = delete]
  <2>1. rdfiles' = [rdfiles EXCEPT ![h] = record]
    BY <1>1, <1>2, <1>6 DEF Dispose, HandlesGood
  <2>2. delete \in BOOLEAN
    BY <1>2 DEF RdFiles
  <2>3. /\ record \in RdFiles
        /\ record.pOSFile = rdfiles[h].pOSFile /\ record.access = rdfiles[h].access
        /\ record.share = rdfiles[h].share /\ record.hDir = rdfiles[h].hDir
    BY <1>2, <2>2 DEF RdFiles
  <2>4. record # Null
    BY <2>3, NullAssumption
  <2> HIDE DEF record
  <2>5. /\ rdfiles' \in [Handles -> RdFiles \cup {Null}] /\ Valid' = Valid
        /\ rdfiles'[h] = record /\ \A k \in Handles \ {h} : rdfiles'[k] = rdfiles[k]
    BY <1>1, <1>2, <2>1, <2>3, <2>4 DEF HandlesGood, Valid
  <2>6. osfiles' = osfiles /\ InUse' = InUse /\ searches' = searches
    BY <1>6 DEF Dispose, InUse
  <2>7. OneForPath' /\ SearchesHeld'
    BY <1>1, <2>3, <2>5, <2>6 DEF HandlesGood, OneForPath, SearchesHeld, Valid
  <2>8. HandlesGood'
    BY <1>1, <2>3, <2>5, <2>6, <2>7, HandlesKept DEF HandlesGood, Valid
  <2>9. DriveTypeOK' /\ OpenPresent'
    BY <1>1, <1>6, <2>6 DEF Dispose, DriveTypeOK, OpenPresent, diskVars
  <2> QED
    BY <2>8, <2>9, CountingParts
<1>7. CASE disk_create_notify(h)
  <2>1. HandlesGood'
    BY <1>1, <1>7, HandlesUntouched DEF disk_create_notify
  <2> DEFINE new == [handle |-> h, name |-> Of(h).name, stale |-> FALSE]
  <2>2. new \in Watch
    BY <1>2 DEF Watch, OsFiles
  <2>3. Refreshed(watches, h) \in Seq(Watch)
    BY <1>1, RefreshedType DEF DriveTypeOK
  <2>4. watches' \in Seq(Watch)
    BY <1>7, <2>2, <2>3, AppendProperties DEF disk_create_notify
  <2>5. DriveTypeOK' /\ OpenPresent'
    BY <1>1, <1>7, <2>4 DEF disk_create_notify, DriveTypeOK, OpenPresent, InUse, diskVars
  <2> QED
    BY <2>1, <2>5, CountingParts
<1> QED
    BY <1>3, <1>4, <1>5, <1>6, <1>7

\* FileRenameInformation: a path that is taken over is free, and so no other
\* open file has it.
LEMMA RenameCounts ==
    ASSUME Counting, running' = running, NEW h \in Valid, NEW new \in Names, Rename(h, new)
    PROVE  Counting'
<1>1. HandlesGood /\ DriveTypeOK /\ OpenPresent
    BY CountingParts
<1> DEFINE o == rdfiles[h].pOSFile
           old == Of(h).name
           moves == disk[new] = Absent /\ disk[old] # Absent /\ old # Root
           after == IF moves THEN Moved(old, new) ELSE disk
           hFile == IF IsDir(osfiles[o]) THEN Directory
                    ELSE IF after[new] = Of(h).hFile THEN Of(h).hFile ELSE Reopened(after, new)
           record == [osfiles[o] EXCEPT !.name = Renamed(moves, old, new), !.hFile = hFile]
<1>2. h \in Handles /\ o \in InUse /\ o \in Handles /\ osfiles[o] \in OsFiles /\ Of(h) = osfiles[o]
    BY <1>1 DEF HandlesGood, Valid, Referred, InUse, Of
<1>3. old \in Paths /\ new \in Paths /\ old = osfiles[o].name
    BY <1>2 DEF OsFiles, Paths
<1>4. after \in [Paths -> Files \cup {Absent, Directory}]
    BY <1>1, <1>3 DEF DriveTypeOK, Moved
<1>5. hFile \in Files \cup {Directory, Closed}
    BY <1>2, <1>3 DEF Reopened, OsFiles
<1>6. record \in OsFiles /\ record.name = (IF moves THEN new ELSE old)
      /\ record.ulOpenCount = osfiles[o].ulOpenCount
  <2> HIDE DEF hFile, moves
  <2> QED
    BY <1>2, <1>3, <1>5 DEF OsFiles, Renamed
<1>7. record # Null
    BY <1>6, NullAssumption
<1>8. disk' = after /\ osfiles' = [osfiles EXCEPT ![o] = record]
  <2>1. /\ disk' = after
        /\ osfiles' = [osfiles EXCEPT ![o].name = Renamed(moves, @, new), ![o].hFile = hFile]
    BY DEF Rename
  <2> HIDE DEF moves, after, hFile
  <2>2. osfiles' = [osfiles EXCEPT ![o] = [osfiles[o] EXCEPT !.name = Renamed(moves, @, new),
                                                             !.hFile = hFile]]
    BY <1>1, <1>2, <2>1 DEF HandlesGood
  <2> QED
    BY <1>3, <2>1, <2>2
<1> HIDE DEF record, hFile
<1>9. /\ osfiles' \in [Handles -> OsFiles \cup {Null}] /\ InUse' = InUse
      /\ osfiles'[o] = record /\ \A p \in Handles \ {o} : osfiles'[p] = osfiles[p]
    BY <1>1, <1>2, <1>6, <1>7, <1>8 DEF HandlesGood, InUse
<1>10. Valid' = Valid /\ rdfiles' = rdfiles /\ searches' = searches
    BY DEF Rename, Valid
<1>11. \A p \in InUse \ {o} : osfiles[p].name # old /\ (moves => osfiles[p].name # new)
    BY <1>1, <1>2, <1>3 DEF HandlesGood, OneForPath, OpenPresent
<1>12. OneForPath' /\ SearchesHeld'
    BY <1>1, <1>6, <1>9, <1>10, <1>11 DEF HandlesGood, OneForPath, SearchesHeld, InUse
<1>13. HandlesGood'
    BY <1>1, <1>6, <1>9, <1>10, <1>12, HandlesKept DEF HandlesGood, InUse
<1>14. OpenPresent'
  <2>1. after[record.name] # Absent
    BY <1>1, <1>2, <1>3, <1>6 DEF Moved, OpenPresent, DriveTypeOK
  <2>2. \A p \in InUse \ {o} : after[osfiles[p].name] = disk[osfiles[p].name]
    <3>1. \A p \in InUse : osfiles[p].name \in Paths
      BY <1>1 DEF HandlesGood, InUse, OsFiles
    <3> QED
      BY <1>1, <1>3, <1>11, <3>1 DEF Moved, DriveTypeOK
  <2> QED
    BY <1>1, <1>8, <1>9, <2>1, <2>2 DEF OpenPresent, InUse
<1>15. DriveTypeOK'
  <2>1. watches' \in Seq(Watch)
    BY <1>1, ChangedType DEF Rename, DriveTypeOK
  <2> QED
    BY <1>1, <1>4, <1>8, <2>1 DEF Rename, DriveTypeOK
<1> QED
    BY <1>13, <1>14, <1>15, CountingParts

\* One pass of rdpdr_check_fds touches the requests only.
LEMMA CheckNotifyCounts == ASSUME Counting, running' = running, CheckNotify PROVE Counting'
<1>1. HandlesGood /\ DriveTypeOK /\ OpenPresent
    BY CountingParts
<1>2. HandlesGood'
    BY <1>1, HandlesUntouched DEF CheckNotify
<1>3. watches' \in Seq(Watch)
  <2> DEFINE list == Refreshed(watches, Head(watches).handle)
  <2>1. list \in Seq(Watch) /\ list # <<>>
    <3>1. list \in Seq(Watch) /\ DOMAIN list = DOMAIN watches
      BY <1>1, RefreshedType DEF DriveTypeOK, Refreshed
    <3>2. watches \in Seq(Watch) /\ watches # <<>>
      BY <1>1 DEF DriveTypeOK, CheckNotify
    <3>3. 1 \in DOMAIN watches
      BY <3>2, EmptySeq, LenProperties
    <3> QED
      BY <3>1, <3>3
  <2>2. Tail(list) \in Seq(Watch)
    BY <2>1, HeadTailProperties
  <2> QED
    BY <1>1, <2>2 DEF CheckNotify, DriveTypeOK
<1>4. DriveTypeOK' /\ OpenPresent'
    BY <1>1, <1>3 DEF CheckNotify, DriveTypeOK, OpenPresent, InUse, diskVars
<1> QED
    BY <1>2, <1>4, CountingParts

\* disk_done leaves no handle and no open file.
LEMMA DoneCounts == ASSUME Counting, disk_done PROVE Counting'
<1>1. HandlesGood /\ DriveTypeOK /\ OpenPresent
    BY CountingParts
<1>2. Valid' = {} /\ InUse' = {}
    BY DEF disk_done, Valid, InUse
<1>3. Referred' /\ Counts' /\ OneForPath' /\ SearchesHeld' /\ SharingKept' /\ OpenPresent'
    BY <1>2 DEF Referred, Counts, OneForPath, SearchesHeld, SharingKept, OpenPresent, disk_done
<1>4. /\ osfiles' \in [Handles -> OsFiles \cup {Null}]
      /\ rdfiles' \in [Handles -> RdFiles \cup {Null}]
      /\ searches' \in [Handles -> Nat]
    BY <1>1 DEF disk_done, HandlesGood
<1>5. DriveTypeOK'
    BY <1>1 DEF disk_done, DriveTypeOK, diskVars
<1> QED
    BY <1>3, <1>4, <1>5, CountingParts DEF HandlesGood

\* A drive that is not used yet has neither handles nor open files.
LEMMA InitCounts == Init => Counting
<1> SUFFICES ASSUME Init PROVE Counting
    OBVIOUS
<1>1. Valid = {} /\ InUse = {}
    BY DEF Init, Valid, InUse
<1>2. Referred /\ Counts /\ OneForPath /\ SearchesHeld /\ SharingKept /\ OpenPresent
    BY <1>1 DEF Referred, Counts, OneForPath, SearchesHeld, SharingKept, OpenPresent, Init
<1>3. /\ osfiles \in [Handles -> OsFiles \cup {Null}]
      /\ rdfiles \in [Handles -> RdFiles \cup {Null}]
      /\ searches \in [Handles -> Nat]
    BY DEF Init
<1>4. readonly \subseteq Files
  <2>1. \A q \in Names : disk[q] \in Files \cup {Absent}
    BY NameAssumption DEF Init, Paths
  <2> QED
    BY <2>1 DEF Init
<1>5. DriveTypeOK
    BY <1>4, EmptySeq DEF Init, DriveTypeOK
<1> QED
    BY <1>2, <1>3, <1>5, CountingParts DEF HandlesGood

\* Every step keeps the count of the handles.
LEMMA NextCounts == Counting /\ [Next]_vars => Counting'
<1> SUFFICES ASSUME Counting, [Next]_vars PROVE Counting'
    OBVIOUS
<1>1. CASE Create /\ UNCHANGED running
    BY <1>1, CreateCounts
<1>2. ASSUME NEW h \in Valid, Request(h), UNCHANGED running PROVE Counting'
    BY <1>2, CloseCounts, WorkCounts, RenameCounts DEF Request, disk_set_information
<1>3. CASE CheckNotify /\ UNCHANGED running
    BY <1>3, CheckNotifyCounts
<1>4. CASE disk_done
    BY <1>4, DoneCounts
<1>5. CASE UNCHANGED vars
  <2>1. HandlesGood'
    BY <1>5, CountingParts, HandlesUntouched DEF vars
  <2>2. DriveTypeOK' /\ OpenPresent'
    BY <1>5, CountingParts DEF vars, diskVars, DriveTypeOK, OpenPresent, InUse
  <2> QED
    BY <2>1, <2>2, CountingParts
<1> QED
    BY <1>1, <1>2, <1>3, <1>4, <1>5 DEF Next

\* The handles and the open files are counted throughout every run.
THEOREM CountingInvariance == Spec => []Counting
BY InitCounts, NextCounts, PTL DEF Spec

\* An open file lives exactly as long as handles refer to it, one path has one
\* open file, no search stays open, and no handle has a right that another
\* handle of the file denied: however the server opens, renames and closes.
THEOREM FilesSharedAlways == Spec => []FilesShared
<1>1. Counting => FilesShared
    BY DEF Counting, FilesShared, FilesCounted, Referred, Counts, OneForPath, SearchesHeld
<1> QED
    BY <1>1, CountingInvariance, PTL

-----------------------------------------------------------------------------
(* Files and their attributes *)

\* What Meaning speaks of, when no step changes it.
LEMMA MeaningKept ==
    ASSUME Counting, Meaning, UNCHANGED <<diskVars, running>>,
           InUse' = InUse,
           \A o \in InUse : /\ osfiles'[o].name = osfiles[o].name
                            /\ osfiles'[o].hFile = osfiles[o].hFile
                            /\ osfiles'[o].attribute = osfiles[o].attribute,
           RootStays'
    PROVE  Meaning'
<1>1. FilesOnDisk'
    BY DEF Meaning, FilesOnDisk, diskVars
<1>2. AttributeNoted' /\ HandleMeansItsFile'
    BY DEF Meaning, AttributeNoted, HandleMeansItsFile, diskVars
<1>3. \A name : OpenedAt(name)' = OpenedAt(name)
    BY DEF OpenedAt
<1>4. ReadOnlyKept'
    BY <1>3 DEF Meaning, ReadOnlyKept, diskVars
<1> QED
    BY <1>1, <1>2, <1>4 DEF Meaning

\* disk_create on a file that is open: nothing of the file changes.
LEMMA JoinMeans ==
    ASSUME Counting, Meaning, running' = running,
           NEW name, NEW access \in SUBSET Rights, NEW share \in SUBSET Rights,
           NEW disposition, NEW kind, Join(name, access, share, disposition, kind)
    PROVE  Meaning'
<1>1. HandlesGood
    BY CountingParts
<1>2. PICK o \in OpenedAt(name) :
          /\ MayJoin(o, access, share, disposition, kind)
          /\ NewHandle(o, osfiles[o], access, share)
          /\ UNCHANGED <<diskVars, watches>>
    BY DEF Join
<1>3. o \in InUse /\ o \in Handles /\ osfiles[o] \in OsFiles
    BY <1>1 DEF OpenedAt, InUse, HandlesGood
<1>4. \A h \in UsersOf(o) : ~Violates(h, access, share)
    BY <1>2 DEF MayJoin
<1>5. /\ InUse' = InUse \cup {o}
      /\ \A p \in InUse \ {o} : osfiles'[p] = osfiles[p]
      /\ osfiles'[o].name = osfiles[o].name /\ osfiles'[o].hFile = osfiles[o].hFile
      /\ osfiles'[o].attribute = osfiles[o].attribute
      /\ \A h \in Valid' :
            \/ h \in Valid /\ rdfiles'[h] = rdfiles[h]
            \/ rdfiles'[h].pOSFile = o /\ ~rdfiles'[h].fDeleteOnClose
    BY <1>1, <1>2, <1>3, <1>4, HandleAdded
<1>6. RootStays'
    BY <1>1, <1>2, <1>3, <1>5 DEF HandlesGood, Referred, Meaning, RootStays, Of, diskVars
<1> QED
    BY <1>2, <1>3, <1>5, <1>6, MeaningKept

\* A directory is opened, or made where nothing was.
LEMMA OpenDirectoryMeans ==
    ASSUME Counting, Meaning, running' = running, NEW name \in Paths, OpenedAt(name) = {},
           NEW access \in SUBSET Rights, NEW share \in SUBSET Rights,
           NEW disposition, NEW kind, OpenDirectory(name, access, share, disposition, kind)
    PROVE  Meaning'
<1>1. HandlesGood /\ DriveTypeOK
    BY CountingParts
<1> DEFINE new == NewRecord(name, Directory, FALSE)
<1>2. PICK o \in Handles \ InUse : NewHandle(o, new, access, share)
    BY DEF OpenDirectory
<1>3. new \in OsFiles /\ new.ulOpenCount = 0 /\ new.name = name /\ new.hFile = Directory
    BY DEF NewRecord, OsFiles
<1> HIDE DEF new
<1>4. /\ InUse' = InUse \cup {o} /\ osfiles'[o].name = name /\ osfiles'[o].hFile = Directory
      /\ \A p \in InUse : osfiles'[p] = osfiles[p]
      /\ \A h \in Valid' :
            \/ h \in Valid /\ rdfiles'[h] = rdfiles[h]
            \/ rdfiles'[h].pOSFile = o /\ ~rdfiles'[h].fDeleteOnClose
    BY <1>1, <1>2, <1>3, HandleAdded
<1>5. /\ disk' = [disk EXCEPT ![name] = Directory] /\ disk[name] \in {Absent, Directory}
      /\ readonly' = readonly /\ wanted' = wanted
    BY DEF OpenDirectory
<1>6. Absent \notin Files /\ Directory \notin Files /\ Absent # Directory
    BY FileAssumption DEF Absent, Directory
<1>7. \A p \in InUse : osfiles[p].name \in Paths \ {name}
    BY <1>1 DEF HandlesGood, InUse, OsFiles, OpenedAt
<1>8. \A p \in Paths : disk'[p] \in Files => disk'[p] = disk[p]
    BY <1>1, <1>5, <1>6 DEF DriveTypeOK
<1>9. RootStays'
    BY <1>1, <1>4, <1>5, SMTT(60) DEF HandlesGood, Referred, Meaning, RootStays, Of, DriveTypeOK
<1>10. FilesOnDisk'
  <2>1. \A p, q \in Paths : disk'[p] \in Files /\ disk'[p] = disk'[q] => p = q
    BY <1>8 DEF Meaning, FilesOnDisk
  <2>2. \A p \in Paths : disk[p] \in Files => disk'[p] = disk[p]
    BY <1>1, <1>5, <1>6 DEF DriveTypeOK
  <2> QED
    BY <1>1, <1>5, <2>1, <2>2 DEF Meaning, FilesOnDisk, DriveTypeOK
<1>11. AttributeNoted'
    BY <1>4, <1>5, <1>6 DEF Meaning, AttributeNoted
<1>12. HandleMeansItsFile'
    BY <1>1, <1>4, <1>5, <1>7 DEF Meaning, HandleMeansItsFile, DriveTypeOK
<1>13. ReadOnlyKept'
  <2>1. \A p \in Names : OpenedAt(p)' = {} => OpenedAt(p) = {}
    BY <1>4 DEF OpenedAt
  <2> QED
    BY <1>5, <1>8, <2>1 DEF Meaning, ReadOnlyKept, Paths
<1> QED
    BY <1>9, <1>10, <1>11, <1>12, <1>13 DEF Meaning

\* A file is opened, or made where nothing was: the attribute it has on the
\* disk goes to its record.
LEMMA OpenFileMeans ==
    ASSUME Counting, Meaning, running, running' = running, NEW name \in Paths,
           OpenedAt(name) = {},
           NEW access \in SUBSET Rights, NEW share \in SUBSET Rights,
           NEW disposition, NEW kind, OpenFile(name, access, share, disposition, kind)
    PROVE  Meaning'
<1>1. HandlesGood /\ DriveTypeOK
    BY CountingParts
<1>2. Absent \notin Files /\ Directory \notin Files /\ Absent # Directory
    BY FileAssumption DEF Absent, Directory
<1>3. name \in Names
    BY <1>2 DEF OpenFile, MayOpenFile, Meaning, RootStays, Paths
<1> DEFINE f == FileAt(name)
           new == NewRecord(name, f, f \in readonly)
<1>4. f \in Files /\ (f = disk[name] \/ (disk[name] = Absent /\ \A p \in Paths : disk[p] # f))
    BY <1>2 DEF OpenFile, MayOpenFile, FileAt
<1> HIDE DEF f
<1>5. PICK o \in Handles \ InUse :
          /\ disk' = [disk EXCEPT ![name] = f]
          /\ readonly' = readonly \ {f}
          /\ NewHandle(o, new, access, share)
    BY DEF OpenFile, f
<1>6. wanted' = wanted
    BY DEF OpenFile
<1>7. /\ new \in OsFiles /\ new.ulOpenCount = 0 /\ new.name = name /\ new.hFile = f
      /\ new.attribute <=> f \in readonly
  <2>1. new.attribute = (f \in readonly) /\ (f \in readonly) \in BOOLEAN
    BY DEF NewRecord
  <2>2. new = [name |-> name, hFile |-> f, attribute |-> new.attribute, ulOpenCount |-> 0]
    BY <2>1 DEF NewRecord
  <2> HIDE DEF new
  <2>3. new.attribute \in BOOLEAN /\ (new.attribute <=> f \in readonly)
    BY <2>1, Zenon
  <2>4. new \in OsFiles /\ new.ulOpenCount = 0 /\ new.name = name /\ new.hFile = f
    BY <1>4, <2>2, <2>3 DEF OsFiles
  <2> QED
    BY <2>3, <2>4
<1> HIDE DEF new
<1>8. /\ InUse' = InUse \cup {o} /\ osfiles'[o].name = name /\ osfiles'[o].hFile = f
      /\ osfiles'[o].attribute <=> f \in readonly
      /\ \A p \in InUse : osfiles'[p] = osfiles[p]
      /\ \A h \in Valid' :
            \/ h \in Valid /\ rdfiles'[h] = rdfiles[h]
            \/ rdfiles'[h].pOSFile = o /\ ~rdfiles'[h].fDeleteOnClose
    BY <1>1, <1>5, <1>7, HandleAdded, ZenonT(60)
<1>9. \A p \in InUse : osfiles[p].name \in Paths \ {name}
    BY <1>1 DEF HandlesGood, InUse, OsFiles, OpenedAt
<1>10. \A p \in Paths \ {name} : disk'[p] = disk[p] /\ disk[p] # f
    BY <1>1, <1>4, <1>5 DEF DriveTypeOK, Meaning, FilesOnDisk
<1>11. disk'[name] = f
    BY <1>1, <1>5 DEF DriveTypeOK
<1>12. f \in readonly <=> f \in wanted
  <2>1. CASE f = disk[name]
    BY <1>3, <1>4, <2>1 DEF Meaning, ReadOnlyKept
  <2>2. CASE \A p \in Paths : disk[p] # f
    BY <2>2 DEF Meaning, FilesOnDisk
  <2> QED
    BY <1>4, <2>1, <2>2
<1>13. RootStays'
    BY <1>1, <1>3, <1>8, <1>10, NameAssumption DEF HandlesGood, Referred, Meaning, RootStays, Of, Paths
<1>14. FilesOnDisk'
  <2>1. \A p, q \in Paths : disk'[p] \in Files /\ disk'[p] = disk'[q] => p = q
    BY <1>10, <1>11 DEF Meaning, FilesOnDisk
  <2>2. \A g \in readonly' \cup wanted' : g = f \/ \E p \in Paths \ {name} : disk[p] = g
    BY <1>1, <1>2, <1>4, <1>5, <1>6 DEF Meaning, FilesOnDisk, DriveTypeOK
  <2> QED
    BY <1>10, <1>11, <2>1, <2>2 DEF FilesOnDisk
<1>15. AttributeNoted'
  <2>1. \A p \in InUse : osfiles[p].hFile # f
    BY <1>9, <1>10 DEF Meaning, HandleMeansItsFile
  <2> QED
    BY <1>5, <1>6, <1>8, <1>12, <2>1 DEF Meaning, AttributeNoted
<1>16. HandleMeansItsFile'
    BY <1>8, <1>9, <1>10, <1>11 DEF Meaning, HandleMeansItsFile
<1>17. ReadOnlyKept'
  <2>1. \A p \in Names : OpenedAt(p)' = {} => p # name /\ OpenedAt(p) = {}
    BY <1>8 DEF OpenedAt
  <2> QED
    BY <1>5, <1>6, <1>10, <2>1 DEF Meaning, ReadOnlyKept, Paths
<1> QED
    BY <1>13, <1>14, <1>15, <1>16, <1>17 DEF Meaning

\* disk_create as a whole.
LEMMA CreateMeans ==
    ASSUME Counting, Meaning, running, running' = running, Create PROVE Meaning'
<1>1. PICK open \in Opens, disposition \in Dispositions :
          disk_create(open.name, open.access, open.share, disposition, open.kind)
    BY DEF Create
<1>2. open.name \in Paths /\ open.access \in SUBSET Rights /\ open.share \in SUBSET Rights
    BY OpenAssumption
<1>3. CASE Join(open.name, open.access, open.share, disposition, open.kind)
    BY <1>2, <1>3, JoinMeans
<1>4. CASE OpenedAt(open.name) = {}
           /\ OpenDirectory(open.name, open.access, open.share, disposition, open.kind)
    BY <1>2, <1>4, OpenDirectoryMeans
<1>5. CASE OpenedAt(open.name) = {}
           /\ OpenFile(open.name, open.access, open.share, disposition, open.kind)
    BY <1>2, <1>5, OpenFileMeans
<1>6. CASE OpenRefused(open.name, open.access, disposition, open.kind)
  <2>1. InUse' = InUse /\ RootStays' /\ UNCHANGED diskVars
    BY <1>6 DEF OpenRefused, PutBack, Meaning, RootStays, Valid, Of, InUse, diskVars
  <2> QED
    BY <1>6, <2>1, MeaningKept DEF OpenRefused
<1> QED
    BY <1>1, <1>3, <1>4, <1>5, <1>6 DEF disk_create

\* disk_close: the last handle gives the file back its attribute, or takes the
\* file from the disk.
LEMMA CloseMeans ==
    ASSUME Counting, Meaning, running' = running, NEW h \in Valid, disk_close(h)
    PROVE  Meaning'
<1>1. HandlesGood /\ DriveTypeOK
    BY CountingParts
<1> DEFINE o == rdfiles[h].pOSFile
<1>2. h \in Handles /\ rdfiles[h] \in RdFiles /\ o \in InUse /\ Of(h) = osfiles[o]
      /\ osfiles[o] \in OsFiles
    BY <1>1 DEF HandlesGood, Valid, Referred, InUse, Of
<1>3. CASE CloseRefused(h)
  <2>1. UNCHANGED <<diskVars, osfiles>> /\ InUse' = InUse
    BY <1>3 DEF CloseRefused, InUse
  <2>2. \A k \in Valid' : k \in Valid /\ rdfiles'[k].pOSFile = rdfiles[k].pOSFile
                         /\ (rdfiles'[k].fDeleteOnClose => rdfiles[k].fDeleteOnClose)
    BY <1>1, <1>2, <1>3 DEF CloseRefused, Valid, HandlesGood, RdFiles
  <2>3. RootStays'
    BY <2>1, <2>2 DEF Meaning, RootStays, Of, diskVars
  <2> QED
    BY <2>1, <2>3, MeaningKept
<1>4. CASE CloseLast(h) \/ CloseDelete(h) \/ CloseOneOf(h)
  <2>1. /\ InUse' = IF osfiles[o].ulOpenCount = 1 THEN InUse \ {o} ELSE InUse
        /\ \A k \in Valid' : k \in Valid /\ rdfiles'[k] = rdfiles[k]
        /\ \A p \in InUse' : osfiles'[p] = [osfiles[p] EXCEPT !.ulOpenCount = osfiles'[p].ulOpenCount]
        /\ HandlesGood'
    BY <1>1, <1>2, <1>4, HandleRemoved DEF CloseLast, CloseDelete, CloseOneOf
  <2>2. InUse' \subseteq InUse
    BY <2>1
  <2>3. \A p \in InUse' : /\ osfiles'[p].name = osfiles[p].name
                          /\ osfiles'[p].hFile = osfiles[p].hFile
                          /\ osfiles'[p].attribute = osfiles[p].attribute
    BY <1>1, <2>1, <2>2 DEF HandlesGood, InUse, OsFiles
  <2>4. \A k \in Valid' : k \in Valid /\ Of(k)'.name = Of(k).name
                         /\ rdfiles'[k].fDeleteOnClose = rdfiles[k].fDeleteOnClose
    BY <2>1, <2>3 DEF HandlesGood, Referred, Of
  <2>5. \A p \in InUse \ {o} : osfiles[p].name \in Paths /\ osfiles[p].name # osfiles[o].name
    BY <1>1, <1>2 DEF HandlesGood, InUse, OsFiles, OneForPath
  <2>6. osfiles[o].name \in Paths /\ disk[osfiles[o].name] = osfiles[o].hFile
    BY <1>2 DEF OsFiles, Meaning, HandleMeansItsFile
  <2>7. \A p \in Names : OpenedAt(p)' = {} => OpenedAt(p) = {} \/ (o \notin InUse' /\ p = osfiles[o].name)
    BY <2>1, <2>3 DEF OpenedAt
  <2>8. CASE CloseOneOf(h)
    <3>1. InUse' = InUse /\ UNCHANGED diskVars
      BY <1>2, <2>1, <2>8 DEF CloseOneOf
    <3>2. RootStays'
      BY <2>4, <3>1 DEF Meaning, RootStays, diskVars
    <3> QED
      BY <2>3, <3>1, <3>2, MeaningKept
  <2>9. CASE CloseLast(h)
    <3> DEFINE f == osfiles[o].hFile
    <3>1. /\ InUse' = InUse \ {o} /\ disk' = disk /\ wanted' = wanted
          /\ readonly' = IF osfiles[o].attribute /\ f \in Files THEN readonly \cup {f} ELSE readonly
      BY <1>2, <2>1, <2>9 DEF CloseLast, Restored
    <3>2. RootStays'
      BY <2>4, <3>1 DEF Meaning, RootStays
    <3>3. FilesOnDisk'
      BY <2>6, <3>1 DEF Meaning, FilesOnDisk
    <3>4. \A p \in InUse \ {o} : osfiles[p].hFile \in Files => osfiles[p].hFile # f
      BY <2>5, <2>6 DEF Meaning, FilesOnDisk, HandleMeansItsFile
    <3>5. AttributeNoted' /\ HandleMeansItsFile'
      BY <2>3, <3>1, <3>4 DEF Meaning, AttributeNoted, HandleMeansItsFile
    <3>6. ASSUME NEW p \in Names, disk[p] \in Files, OpenedAt(p)' = {}, running
          PROVE  disk[p] \in readonly' <=> disk[p] \in wanted
      <4>1. CASE p = osfiles[o].name
        BY <1>2, <2>6, <3>1, <3>6, <4>1 DEF Meaning, AttributeNoted
      <4>2. CASE p # osfiles[o].name
        <5>1. disk[p] # f /\ OpenedAt(p) = {}
          BY <2>6, <2>7, <3>6, <4>2 DEF Meaning, FilesOnDisk, Paths
        <5> QED
          BY <3>1, <3>6, <5>1 DEF Meaning, ReadOnlyKept
      <4> QED
        BY <4>1, <4>2
    <3>7. ReadOnlyKept'
      BY <3>1, <3>6 DEF ReadOnlyKept
    <3> QED
      BY <3>2, <3>3, <3>5, <3>7 DEF Meaning
  <2>10. CASE CloseDelete(h)
    <3> DEFINE n == osfiles[o].name
    <3>1. /\ InUse' = InUse \ {o} /\ disk' = [disk EXCEPT ![n] = Absent]
          /\ wanted' = wanted \ {disk[n]} /\ readonly' = readonly \ {disk[n]}
      BY <1>2, <2>1, <2>10 DEF CloseDelete
    <3>2. n # Root
      BY <1>2, <2>10 DEF CloseDelete, Meaning, RootStays
    <3> HIDE DEF n
    <3>3. /\ disk'[n] = Absent /\ \A p \in Paths \ {n} : disk'[p] = disk[p]
          /\ n \in Paths /\ Absent \notin Files
      BY <1>1, <2>6, <3>1, FileAssumption DEF DriveTypeOK, n
    <3>4. RootStays'
      BY <2>4, <3>2, <3>3 DEF Meaning, RootStays, Paths
    <3>5. FilesOnDisk'
      BY <3>1, <3>3 DEF Meaning, FilesOnDisk
    <3>6. \A p \in InUse' : osfiles[p].name \in Paths \ {n}
      BY <2>5, <3>1 DEF n
    <3>7. HandleMeansItsFile'
      BY <2>3, <3>1, <3>3, <3>6 DEF Meaning, HandleMeansItsFile
    <3>8. AttributeNoted'
      <4>1. \A p \in InUse' : osfiles[p].hFile \in Files => osfiles[p].hFile # disk[n]
        BY <3>1, <3>3, <3>6 DEF Meaning, HandleMeansItsFile, FilesOnDisk
      <4> QED
        BY <2>3, <3>1, <4>1 DEF Meaning, AttributeNoted
    <3>9. ReadOnlyKept'
      <4>1. \A p \in Names : disk'[p] \in Files => p # n /\ disk'[p] = disk[p] /\ disk[p] # disk[n]
        BY <3>3 DEF Meaning, FilesOnDisk, Paths
      <4> QED
        BY <2>7, <3>1, <4>1 DEF Meaning, ReadOnlyKept, n
    <3> QED
      BY <3>4, <3>5, <3>7, <3>8, <3>9 DEF Meaning
  <2> QED
    BY <1>4, <2>8, <2>9, <2>10
<1> QED
    BY <1>3, <1>4 DEF disk_close

\* The other requests for a handle: only "read only" changes, on the disk and
\* in the record of the file at once.
LEMMA WorkMeans ==
    ASSUME Counting, Meaning, running' = running, NEW h \in Valid,
           \/ QueryDirectory(h)
           \/ WriteFile(h)
           \/ \E attribute \in BOOLEAN : SetAttribute(h, attribute)
           \/ Dispose(h)
           \/ disk_create_notify(h)
    PROVE  Meaning'
<1>1. HandlesGood /\ DriveTypeOK
    BY CountingParts
<1> DEFINE o == rdfiles[h].pOSFile
<1>2. h \in Handles /\ rdfiles[h] \in RdFiles /\ o \in InUse /\ o \in Handles /\ Of(h) = osfiles[o]
      /\ osfiles[o] \in OsFiles
    BY <1>1 DEF HandlesGood, Valid, Referred, InUse, Of
<1>3. CASE QueryDirectory(h) \/ Dispose(h)
  <2>1. UNCHANGED <<diskVars, osfiles>> /\ InUse' = InUse
    BY <1>3 DEF QueryDirectory, Dispose, InUse
  <2>2. \A k \in Valid' :
            /\ k \in Valid /\ rdfiles'[k].pOSFile = rdfiles[k].pOSFile
            /\ rdfiles'[k].fDeleteOnClose => rdfiles[k].fDeleteOnClose \/ Of(k).name # Root
    BY <1>1, <1>2, <1>3 DEF QueryDirectory, Dispose, Valid, HandlesGood, RdFiles
  <2>3. RootStays'
    BY <2>1, <2>2 DEF Meaning, RootStays, Of, diskVars
  <2> QED
    BY <2>1, <2>3, MeaningKept
<1>4. CASE WriteFile(h) \/ disk_create_notify(h)
  <2>1. UNCHANGED <<diskVars, osfiles, rdfiles>> /\ InUse' = InUse /\ Valid' = Valid
    BY <1>4 DEF WriteFile, disk_create_notify, InUse, Valid
  <2>2. RootStays'
    BY <2>1 DEF Meaning, RootStays, Of, diskVars
  <2> QED
    BY <2>1, <2>2, MeaningKept
<1>5. ASSUME NEW attribute \in BOOLEAN, SetAttribute(h, attribute) PROVE Meaning'
  <2> DEFINE f == osfiles[o].hFile
             record == [osfiles[o] EXCEPT !.attribute = attribute]
  <2>1. /\ osfiles' = [osfiles EXCEPT ![o] = record] /\ rdfiles' = rdfiles /\ disk' = disk
        /\ f \in Files /\ readonly' = readonly \ {f}
        /\ wanted' = IF attribute THEN wanted \cup {f} ELSE wanted \ {f}
    BY <1>1, <1>2, <1>5 DEF SetAttribute, HandlesGood
  <2>2. record.name = osfiles[o].name /\ record.hFile = f /\ record.attribute = attribute
        /\ record \in OsFiles
    BY <1>2 DEF OsFiles
  <2>3. record # Null
    BY <2>2, NullAssumption
  <2> HIDE DEF record
  <2>4. /\ InUse' = InUse /\ osfiles'[o] = record
        /\ \A p \in InUse \ {o} : osfiles'[p] = osfiles[p]
    BY <1>1, <1>2, <2>1, <2>3 DEF HandlesGood, InUse
  <2>5. Valid' = Valid
    BY <2>1 DEF Valid
  <2>6. \A p \in InUse : osfiles'[p].name = osfiles[p].name /\ osfiles'[p].hFile = osfiles[p].hFile
    BY <2>2, <2>4
  <2>7. RootStays'
    BY <1>1, <2>1, <2>5, <2>6 DEF HandlesGood, Referred, Meaning, RootStays, Of
  <2>8. disk[osfiles[o].name] = f /\ osfiles[o].name \in Paths
    BY <1>2 DEF Meaning, HandleMeansItsFile, OsFiles
  <2>9. FilesOnDisk'
    BY <2>1, <2>8 DEF Meaning, FilesOnDisk
  <2>10. \A p \in InUse \ {o} : osfiles[p].hFile # f
    <3>1. \A p \in InUse : osfiles[p].name \in Paths
      BY <1>1 DEF HandlesGood, InUse, OsFiles
    <3>2. \A p \in InUse \ {o} : osfiles[p].name # osfiles[o].name
      BY <1>1, <1>2 DEF HandlesGood, OneForPath
    <3> QED
      BY <2>1, <2>8, <3>1, <3>2 DEF Meaning, HandleMeansItsFile, FilesOnDisk
  <2>11. HandleMeansItsFile'
    BY <2>1, <2>4, <2>6 DEF Meaning, HandleMeansItsFile
  <2>12. AttributeNoted'
    BY <2>1, <2>2, <2>4, <2>10 DEF Meaning, AttributeNoted
  <2>13. ReadOnlyKept'
    <3>1. \A p : OpenedAt(p)' = OpenedAt(p)
      BY <2>4, <2>6 DEF OpenedAt
    <3>2. \A p \in Names : OpenedAt(p) = {} => disk[p] # f
      BY <1>2, <2>1, <2>8 DEF Meaning, FilesOnDisk, OpenedAt, Paths
    <3> QED
      BY <2>1, <3>1, <3>2 DEF Meaning, ReadOnlyKept
  <2> QED
    BY <2>7, <2>9, <2>11, <2>12, <2>13 DEF Meaning
<1> QED
    BY <1>3, <1>4, <1>5

\* A rename to a free name: the file, and what is open of it, moves there.
LEMMA RenameMeans ==
    ASSUME Counting, Meaning, ~RenameOver, running' = running,
           NEW h \in Valid, NEW new \in Names, Rename(h, new)
    PROVE  Meaning'
<1>1. HandlesGood /\ DriveTypeOK /\ OpenPresent
    BY CountingParts
<1> DEFINE o == rdfiles[h].pOSFile
           old == osfiles[o].name
           f == osfiles[o].hFile
<1>2. h \in Handles /\ o \in InUse /\ o \in Handles /\ osfiles[o] \in OsFiles /\ Of(h) = osfiles[o]
    BY <1>1 DEF HandlesGood, Valid, Referred, InUse, Of
<1>3. old \in Paths /\ new \in Paths /\ old # new /\ disk[new] = Absent /\ disk[old] = f
    BY <1>2 DEF OsFiles, Paths, Rename, Meaning, HandleMeansItsFile
<1>4. Absent \notin Files /\ Directory \notin Files /\ Absent # Directory
    BY FileAssumption DEF Absent, Directory
<1>5. f # Absent
    BY <1>1, <1>2, <1>3 DEF OpenPresent
<1> DEFINE record == [osfiles[o] EXCEPT !.name = new]
<1>6. CASE old # Root
  <2> DEFINE after == Moved(old, new)
  <2>1. after \in [Paths -> Files \cup {Absent, Directory}] /\ after[new] = f /\ after[old] = Absent
        /\ \A p \in Paths \ {old, new} : after[p] = disk[p]
    BY <1>1, <1>3 DEF DriveTypeOK, Moved
  <2>2. /\ disk' = after
        /\ osfiles' = [osfiles EXCEPT ![o].name = new,
              ![o].hFile = IF IsDir(osfiles[o]) THEN Directory
                           ELSE IF after[new] = f THEN f ELSE Reopened(after, new)]
    BY <1>2, <1>3, <1>5, <1>6 DEF Rename, Renamed
  <2> HIDE DEF after
  <2>3. osfiles' = [osfiles EXCEPT ![o].name = new, ![o].hFile = f]
    BY <2>1, <2>2 DEF IsDir
  <2>4. osfiles' = [osfiles EXCEPT ![o] = record]
    BY <1>1, <1>2, <2>3 DEF HandlesGood, OsFiles
  <2>5. record \in OsFiles /\ record.name = new /\ record.hFile = f
        /\ record.attribute = osfiles[o].attribute
    BY <1>2, <1>3 DEF OsFiles
  <2>6. record # Null
    BY <2>5, NullAssumption
  <2> HIDE DEF record
  <2>7. /\ InUse' = InUse /\ osfiles'[o] = record
        /\ \A p \in InUse \ {o} : osfiles'[p] = osfiles[p]
    BY <1>1, <1>2, <2>4, <2>6 DEF HandlesGood, InUse
  <2>8. \A p \in InUse \ {o} : osfiles[p].name \in Paths \ {old, new}
    <3>1. \A p \in InUse : osfiles[p].name \in Paths
      BY <1>1 DEF HandlesGood, InUse, OsFiles
    <3> QED
      BY <1>1, <1>2, <1>3, <3>1 DEF HandlesGood, OneForPath, OpenPresent
  <2>9. readonly' = readonly /\ wanted' = wanted /\ rdfiles' = rdfiles /\ Valid' = Valid
    BY DEF Rename, Valid
  <2>10. RootStays'
    <3>1. \A k \in Valid : Of(k)'.name = new \/ Of(k)'.name = Of(k).name
      BY <1>1, <2>5, <2>7, <2>9 DEF HandlesGood, Referred, Of
    <3>2. new # Root /\ disk[Root] # Absent
      BY <1>4, NameAssumption DEF Meaning, RootStays
    <3> QED
      BY <1>3, <1>6, <2>1, <2>2, <2>9, <3>1, <3>2 DEF Meaning, RootStays, Paths
  <2>11. FilesOnDisk'
    <3>1. \A p \in Paths : disk'[p] \in Files => \E q \in Paths : disk[q] = disk'[p]
      BY <1>3, <2>1, <2>2
    <3>2. \A p, q \in Paths : disk'[p] \in Files /\ disk'[p] = disk'[q] => p = q
      BY <1>3, <1>4, <2>1, <2>2 DEF Meaning, FilesOnDisk
    <3>3. \A p \in Paths : disk[p] \in Files => \E q \in Paths : disk'[q] = disk[p]
      BY <1>3, <1>4, <2>1, <2>2
    <3> QED
      BY <1>1, <2>9, <3>2, <3>3 DEF Meaning, FilesOnDisk, DriveTypeOK
  <2>12. HandleMeansItsFile'
    <3>1. ASSUME NEW p \in InUse \ {o} PROVE disk'[osfiles'[p].name] = osfiles'[p].hFile
      <4>1. osfiles'[p] = osfiles[p]
        BY <2>7
      <4>2. disk'[osfiles[p].name] = disk[osfiles[p].name]
        BY <2>1, <2>2, <2>8
      <4>3. disk[osfiles[p].name] = osfiles[p].hFile
        BY DEF Meaning, HandleMeansItsFile
      <4> QED
        BY <4>1, <4>2, <4>3
    <3>2. disk'[osfiles'[o].name] = osfiles'[o].hFile
      BY <2>1, <2>2, <2>5, <2>7
    <3> QED
      BY <2>7, <3>1, <3>2 DEF HandleMeansItsFile
  <2>13. AttributeNoted'
    BY <2>5, <2>7, <2>9 DEF Meaning, AttributeNoted
  <2>14. ReadOnlyKept'
    <3>1. \A p \in Names : OpenedAt(p)' = {} => p # new /\ (p = old \/ OpenedAt(p) = {})
      BY <1>2, <2>5, <2>7 DEF OpenedAt
    <3> QED
      BY <1>4, <2>1, <2>2, <2>9, <3>1 DEF Meaning, ReadOnlyKept, Paths
  <2> QED
    BY <2>10, <2>11, <2>12, <2>13, <2>14 DEF Meaning
<1>7. CASE old = Root
  <2>1. f = Directory
    BY <1>3, <1>7 DEF Meaning, RootStays
  <2>2. disk' = disk /\ osfiles' = [osfiles EXCEPT ![o].name = old, ![o].hFile = Directory]
    BY <1>1, <1>2, <1>7, <2>1 DEF Rename, Renamed, IsDir, HandlesGood
  <2>3. osfiles' = osfiles
    BY <1>1, <1>2, <2>1, <2>2 DEF HandlesGood, OsFiles
  <2>4. UNCHANGED diskVars /\ InUse' = InUse /\ Valid' = Valid /\ rdfiles' = rdfiles
    BY <2>2, <2>3 DEF Rename, diskVars, InUse, Valid
  <2>5. RootStays'
    BY <2>3, <2>4 DEF Meaning, RootStays, Of, diskVars
  <2> QED
    BY <2>3, <2>4, <2>5, MeaningKept
<1> QED
    BY <1>6, <1>7

\* The drive before the first request.
LEMMA InitMeans == Init => Meaning
<1> SUFFICES ASSUME Init PROVE Meaning
    OBVIOUS
<1>1. Valid = {} /\ InUse = {}
    BY DEF Init, Valid, InUse
<1>2. RootStays /\ AttributeNoted /\ HandleMeansItsFile
    BY <1>1 DEF Init, RootStays, AttributeNoted, HandleMeansItsFile, Paths
<1>3. FilesOnDisk
  <2>1. Absent \notin Files /\ Directory \notin Files /\ Absent # Directory
    BY FileAssumption DEF Absent, Directory
  <2> QED
    BY <2>1 DEF Init, FilesOnDisk, Paths
<1>4. ReadOnlyKept
    BY DEF Init, ReadOnlyKept
<1> QED
    BY <1>2, <1>3, <1>4 DEF Meaning

\* Every step keeps the meaning of handles, as long as names are not taken twice.
LEMMA NextMeans == ~RenameOver /\ Counting /\ Meaning /\ [Next]_vars => Meaning'
<1> SUFFICES ASSUME ~RenameOver, Counting, Meaning, [Next]_vars PROVE Meaning'
    OBVIOUS
<1>1. CASE running /\ Create /\ UNCHANGED running
    BY <1>1, CreateMeans
<1>2. ASSUME NEW h \in Valid, Request(h), UNCHANGED running PROVE Meaning'
    BY <1>2, CloseMeans, WorkMeans, RenameMeans DEF Request, disk_set_information
<1>3. CASE (CheckNotify /\ UNCHANGED running) \/ UNCHANGED vars
  <2>1. UNCHANGED <<diskVars, osfiles, rdfiles, running>>
    BY <1>3 DEF CheckNotify, vars
  <2>2. InUse' = InUse /\ RootStays'
    BY <2>1 DEF Meaning, RootStays, Of, Valid, InUse, diskVars
  <2> QED
    BY <2>1, <2>2, MeaningKept
<1>4. CASE disk_done
  <2>1. Valid' = {} /\ InUse' = {} /\ ~running' /\ UNCHANGED diskVars
    BY <1>4 DEF disk_done, Valid, InUse
  <2> QED
    BY <2>1 DEF Meaning, RootStays, FilesOnDisk, AttributeNoted, HandleMeansItsFile,
                ReadOnlyKept, diskVars
<1> QED
    BY <1>1, <1>2, <1>3, <1>4 DEF Next

\* As long as the server does not rename onto a name that exists, a handle is
\* of the file at the path it has, through every rename by it or by others.
THEOREM HandlesMeanFiles == ASSUME ~RenameOver PROVE Spec => []HandleMeansItsFile
<1>1. Init => Counting /\ Meaning
    BY InitCounts, InitMeans
<1>2. Counting /\ Meaning /\ [Next]_vars => Counting' /\ Meaning'
    BY NextCounts, NextMeans
<1>3. Meaning => HandleMeansItsFile
    BY DEF Meaning
<1> QED
    BY <1>1, <1>2, <1>3, PTL DEF Spec

\* A file that nobody has open is read only exactly if it is wanted so, although
\* the attribute is off while the file is open and others may be given meanwhile.
THEOREM AttributesReturn == ASSUME ~RenameOver PROVE Spec => []ReadOnlyKept
<1>1. Init => Counting /\ Meaning
    BY InitCounts, InitMeans
<1>2. Counting /\ Meaning /\ [Next]_vars => Counting' /\ Meaning'
    BY NextCounts, NextMeans
<1>3. Meaning => ReadOnlyKept
    BY DEF Meaning
<1> QED
    BY <1>1, <1>2, <1>3, PTL DEF Spec

-----------------------------------------------------------------------------
(* The clipboard of the X11 front end (XClipboard) *)

Targets == {"TIMESTAMP", "TARGETS", "FORMATS", "TEXT", "NATIVE"}
Asking == [type : {"SelectionRequest"}, selection : Selections, target : Targets,
           who : {"self"} \cup Pasters]
Answering == [type : {"SelectionNotify"}, selection : Selections, target : Targets, done : BOOLEAN]
Events == Asking \cup Answering \cup {RootNotify, WindowNotify, Clear}
Wishes == [who : Others, selection : Selections, target : Targets]

Flags ==
    /\ probing_selections \in BOOLEAN /\ reprobe_selections \in BOOLEAN
    /\ rdesktop_is_selection_owner \in BOOLEAN /\ rdp_clipboard_request_format \in BOOLEAN
    /\ stamps \subseteq Selections /\ stampProperties \subseteq Selections
XclipTypes ==
    /\ Flags /\ pasting \subseteq Pasters
    /\ owner \in [Selections -> Others \cup {"self", Nobody}]
    /\ asked \in Seq(Wishes) /\ xevents \in Seq(Events)
    /\ selection_request \in Seq(Asking) /\ Len(selection_request) <= 1

Elements(s) == {s[i] : i \in 1..Len(s)}

\* Is the request e one of p?
AsksFor(e, p) == e.type = "SelectionRequest" /\ e.who = p
Never(events, p) == \A i \in 1..Len(events) : ~AsksFor(events[i], p)
Once(events, p) ==
    \E i \in 1..Len(events) :
        AsksFor(events[i], p) /\ \A j \in 1..Len(events) : AsksFor(events[j], p) => j = i

\* A program that pastes is known in one place, and no other program is.
KnownIs(events, held, pasters, p) ==
    \/ p \in pasters /\ Once(events, p) /\ ~held
    \/ p \in pasters /\ Never(events, p) /\ held
    \/ p \notin pasters /\ Never(events, p) /\ ~held
Holds(request, p) == request # <<>> /\ request[1].who = p
Known(events, request, pasters) ==
    \A p \in Pasters : KnownIs(events, Holds(request, p), pasters, p)

\* An answer about the target of a selection is to come.
AnswerIs(e, selection, target) ==
    /\ \/ e.type = "SelectionNotify"
       \/ e.type = "SelectionRequest" /\ e.who = "self"
    /\ e.selection = selection /\ e.target = target
WishIs(w, selection, target) == w.selection = selection /\ w.target = target
Coming(wishes, events, request, selection, target) ==
    \/ \E w \in Elements(wishes) : WishIs(w, selection, target)
    \/ \E e \in Elements(events) : AnswerIs(e, selection, target)
    \/ \E e \in Elements(request) : AnswerIs(e, selection, target)

\* The server will be answered: either a notification is to come that is not
\* about timestamps, or every timestamp that is missing is to come.
Sure(wishes, events, request, known) ==
    \/ \E s \in Selections, t \in Targets \ {"TIMESTAMP"} : Coming(wishes, events, request, s, t)
    \/ /\ known # Selections
       /\ \A s \in Selections \ known : Coming(wishes, events, request, s, "TIMESTAMP")

Awaited ==
    /\ ~probing_selections /\ property # "INCR"
    /\ Sure(asked, xevents, selection_request, stamps)

XclipState ==
    /\ XclipTypes /\ Known(xevents, selection_request, pasting)
    /\ rdp_clipboard_request_format /\ ~crossed => Awaited

-----------------------------------------------------------------------------
\* The elements of a sequence that grows, shrinks, or loses one.
LEMMA ElementsBehind ==
    ASSUME NEW S, NEW s \in Seq(S), NEW t \in Seq(S)
    PROVE  Elements(s \o t) = Elements(s) \cup Elements(t)
<1> DEFINE all == s \o t
           m == Len(s)
           n == Len(t)
<1>1. /\ Len(all) = m + n
      /\ \A i \in 1..m : all[i] = s[i]
      /\ \A i \in 1..n : all[m + i] = t[i]
    BY BehindIs
<1>2. m \in Nat /\ n \in Nat
    BY LenProperties
<1>3. Elements(all) = {all[i] : i \in 1..Len(all)} /\ Elements(s) = {s[i] : i \in 1..m}
      /\ Elements(t) = {t[i] : i \in 1..n}
    BY DEF Elements
<1> HIDE DEF all, m, n
<1>4. {all[i] : i \in 1..Len(all)} \subseteq {s[i] : i \in 1..m} \cup {t[i] : i \in 1..n}
  <2>1. ASSUME NEW i \in 1..Len(all)
        PROVE  all[i] \in {s[k] : k \in 1..m} \cup {t[k] : k \in 1..n}
    <3>1. CASE i <= m
      <4>1. i \in 1..m
        BY <1>1, <1>2, <3>1
      <4> QED
        BY <1>1, <4>1
    <3>2. CASE ~(i <= m)
      <4>1. i - m \in 1..n /\ m + (i - m) = i
        BY <1>1, <1>2, <3>2
      <4>2. all[m + (i - m)] = t[i - m]
        BY <1>1, <4>1
      <4> QED
        BY <4>1, <4>2
    <3> QED
      BY <3>1, <3>2
  <2> QED
    BY <2>1
<1>5. {s[i] : i \in 1..m} \subseteq {all[i] : i \in 1..Len(all)}
  <2>1. \A i \in 1..m : i \in 1..Len(all)
    BY <1>1, <1>2
  <2> QED
    BY <1>1, <2>1
<1>6. {t[i] : i \in 1..n} \subseteq {all[i] : i \in 1..Len(all)}
  <2>1. \A i \in 1..n : m + i \in 1..Len(all)
    BY <1>1, <1>2
  <2> QED
    BY <1>1, <2>1
<1>7. Elements(all) = Elements(s) \cup Elements(t)
    BY <1>3, <1>4, <1>5, <1>6
<1> QED
    BY <1>7 DEF all

LEMMA ElementsFew ==
    /\ Elements(<<>>) = {}
    /\ \A x : Elements(<<x>>) = {x}
BY DEF Elements

LEMMA ElementsAppend ==
    ASSUME NEW S, NEW s \in Seq(S), NEW x \in S
    PROVE  Append(s, x) \in Seq(S) /\ Elements(Append(s, x)) = Elements(s) \cup {x}
<1>1. Append(s, x) \in Seq(S) /\ Append(s, x) = s \o <<x>>
    BY AppendProperties, AppendIsConcat
<1>2. <<x>> \in Seq(S)
    OBVIOUS
<1>3. Elements(s \o <<x>>) = Elements(s) \cup Elements(<<x>>)
    BY <1>2, ElementsBehind
<1>4. Elements(<<x>>) = {x}
    BY ElementsFew
<1> QED
    BY <1>1, <1>3, <1>4

LEMMA ElementsTail ==
    ASSUME NEW S, NEW s \in Seq(S), s # <<>>
    PROVE  /\ Head(s) \in S /\ Tail(s) \in Seq(S)
           /\ Elements(s) = {Head(s)} \cup Elements(Tail(s))
<1> DEFINE rest == Tail(s)
           n == Len(s)
<1>1. /\ Head(s) \in S /\ Head(s) = s[1] /\ rest \in Seq(S) /\ Len(rest) = n - 1
      /\ \A i \in 1..(n - 1) : rest[i] = s[i + 1]
    BY HeadTailProperties, EmptySeq
<1>2. n \in Nat \ {0}
    BY EmptySeq, LenProperties
<1>3. Elements(s) = {s[i] : i \in 1..n} /\ Elements(rest) = {rest[i] : i \in 1..Len(rest)}
    BY DEF Elements
<1> HIDE DEF rest, n
<1>4. {s[i] : i \in 1..n} \subseteq {s[1]} \cup {rest[i] : i \in 1..Len(rest)}
  <2>1. ASSUME NEW i \in 1..n, i # 1
        PROVE  s[i] \in {rest[k] : k \in 1..Len(rest)}
    <3>1. i - 1 \in 1..(n - 1) /\ (i - 1) + 1 = i
      BY <1>2, <2>1
    <3>2. rest[i - 1] = s[(i - 1) + 1]
      BY <1>1, <3>1
    <3> QED
      BY <1>1, <3>1, <3>2
  <2> QED
    BY <2>1
<1>5. {s[1]} \cup {rest[i] : i \in 1..Len(rest)} \subseteq {s[i] : i \in 1..n}
  <2>1. 1 \in 1..n /\ \A i \in 1..(n - 1) : i + 1 \in 1..n
    BY <1>2
  <2> QED
    BY <1>1, <2>1
<1>6. Elements(s) = {Head(s)} \cup Elements(rest)
    BY <1>1, <1>3, <1>4, <1>5
<1> QED
    BY <1>1, <1>6 DEF rest

LEMMA ElementsCut ==
    ASSUME NEW S, NEW s \in Seq(S), NEW n \in 1..Len(s)
    PROVE  /\ CutOut(s, n) \in Seq(S)
           /\ Elements(s) \subseteq {s[n]} \cup Elements(CutOut(s, n))
<1> DEFINE cut == CutOut(s, n)
<1>1. /\ cut \in Seq(S) /\ Len(cut) = Len(s) - 1
      /\ \A i \in 1..(Len(s) - 1) : cut[i] = IF i < n THEN s[i] ELSE s[i + 1]
    BY CutOutIs
<1>2. Len(s) \in Nat
    BY LenProperties
<1>3. Elements(s) = {s[i] : i \in 1..Len(s)} /\ Elements(cut) = {cut[i] : i \in 1..Len(cut)}
    BY DEF Elements
<1> HIDE DEF cut
<1>4. ASSUME NEW i \in 1..Len(s), i # n
      PROVE  s[i] \in {cut[k] : k \in 1..Len(cut)}
  <2>1. CASE i < n
    <3>1. i \in 1..(Len(s) - 1)
      BY <1>2, <2>1
    <3> QED
      BY <1>1, <2>1, <3>1
  <2>2. CASE ~(i < n)
    <3>1. i - 1 \in 1..(Len(s) - 1) /\ ~(i - 1 < n) /\ (i - 1) + 1 = i
      BY <1>2, <1>4, <2>2
    <3>2. cut[i - 1] = s[(i - 1) + 1]
      BY <1>1, <3>1
    <3> QED
      BY <1>1, <3>1, <3>2
  <2> QED
    BY <2>1, <2>2
<1>5. Elements(s) \subseteq {s[n]} \cup Elements(cut)
    BY <1>3, <1>4
<1> QED
    BY <1>1, <1>5 DEF cut

-----------------------------------------------------------------------------
\* Who is known, and how often.
LEMMA NeverIs ==
    ASSUME NEW events, NEW p
    PROVE  Never(events, p) <=> \A e \in Elements(events) : ~AsksFor(e, p)
BY DEF Never, Elements

\* Events that are no paster's request.
Quiet(events) == \A p \in Pasters : Never(events, p)

LEMMA OnceBehind ==
    ASSUME NEW s \in Seq(Events), NEW t \in Seq(Events), NEW p
    PROVE  /\ Once(s, p) /\ Never(t, p) => Once(s \o t, p)
           /\ Never(s, p) /\ Never(t, p) => Never(s \o t, p)
<1> DEFINE all == s \o t
           m == Len(s)
           n == Len(t)
<1>1. /\ Len(all) = m + n
      /\ \A i \in 1..m : all[i] = s[i]
      /\ \A i \in 1..n : all[m + i] = t[i]
    BY BehindIs
<1>2. m \in Nat /\ n \in Nat
    BY LenProperties
<1>3. ASSUME Never(t, p) PROVE \A i \in 1..Len(all) : i <= m \/ ~AsksFor(all[i], p)
  <2>1. \A i \in 1..n : ~AsksFor(t[i], p)
    BY <1>3 DEF Never
  <2> HIDE DEF all, m, n
  <2>2. ASSUME NEW i \in 1..Len(all), ~(i <= m) PROVE ~AsksFor(all[i], p)
    <3>1. i - m \in 1..n /\ m + (i - m) = i
      BY <1>1, <1>2, <2>2
    <3>2. all[m + (i - m)] = t[i - m]
      BY <1>1, <3>1
    <3> QED
      BY <2>1, <3>1, <3>2
  <2> QED
    BY <2>2
<1>4. ASSUME Once(s, p), Never(t, p) PROVE Once(all, p)
  <2>1. PICK i \in 1..m : AsksFor(s[i], p) /\ \A j \in 1..m : AsksFor(s[j], p) => j = i
    BY <1>4 DEF Once
  <2>2. \A j \in 1..Len(all) : j <= m \/ ~AsksFor(all[j], p)
    BY <1>3, <1>4
  <2> HIDE DEF all, m, n
  <2>3. i \in 1..Len(all) /\ AsksFor(all[i], p)
    BY <1>1, <1>2, <2>1
  <2>4. ASSUME NEW j \in 1..Len(all), AsksFor(all[j], p) PROVE j = i
    <3>1. j \in 1..m
      BY <1>2, <2>2, <2>4
    <3> QED
      BY <1>1, <2>1, <2>4, <3>1
  <2> QED
    BY <2>3, <2>4 DEF Once
<1>5. ASSUME Never(s, p), Never(t, p) PROVE Never(all, p)
  <2>1. \A j \in 1..Len(all) : j <= m \/ ~AsksFor(all[j], p)
    BY <1>3, <1>5
  <2>2. \A j \in 1..m : ~AsksFor(s[j], p)
    BY <1>5 DEF Never
  <2> HIDE DEF all, m, n
  <2>3. ASSUME NEW j \in 1..Len(all), j <= m PROVE ~AsksFor(all[j], p)
    <3>1. j \in 1..m
      BY <2>3
    <3> QED
      BY <1>1, <2>2, <3>1
  <2> QED
    BY <2>1, <2>3 DEF Never
<1> QED
    BY <1>4, <1>5

LEMMA OnceAppend ==
    ASSUME NEW s \in Seq(Events), NEW e \in Events, NEW p, Never(s, p), AsksFor(e, p)
    PROVE  Once(Append(s, e), p)
<1> DEFINE all == Append(s, e)
           m == Len(s)
<1>1. Len(all) = m + 1 /\ all[m + 1] = e /\ \A i \in 1..m : all[i] = s[i]
    BY AppendProperties
<1>2. m \in Nat
    BY LenProperties
<1>3. \A i \in 1..m : ~AsksFor(s[i], p)
    BY DEF Never
<1> HIDE DEF all, m
<1>4. m + 1 \in 1..Len(all) /\ AsksFor(all[m + 1], p)
    BY <1>1, <1>2
<1>5. ASSUME NEW j \in 1..Len(all), AsksFor(all[j], p) PROVE j = m + 1
  <2>1. j \in 1..m \/ j = m + 1
    BY <1>1, <1>2
  <2> QED
    BY <1>1, <1>3, <1>5, <2>1
<1>6. Once(all, p)
    BY <1>4, <1>5 DEF Once
<1> QED
    BY <1>6 DEF all

LEMMA OnceTail ==
    ASSUME NEW s \in Seq(Events), s # <<>>, NEW p
    PROVE  /\ Once(s, p) /\ AsksFor(Head(s), p) => Never(Tail(s), p)
           /\ Once(s, p) /\ ~AsksFor(Head(s), p) => Once(Tail(s), p)
           /\ Never(s, p) => Never(Tail(s), p) /\ ~AsksFor(Head(s), p)
<1> DEFINE rest == Tail(s)
           n == Len(s)
<1>1. /\ Head(s) = s[1] /\ Len(rest) = n - 1
      /\ \A i \in 1..(n - 1) : rest[i] = s[i + 1]
    BY HeadTailProperties, EmptySeq
<1>2. n \in Nat \ {0}
    BY EmptySeq, LenProperties
<1>3. 1 \in 1..n /\ \A i \in 1..(n - 1) : i + 1 \in 1..n /\ i + 1 # 1
    BY <1>2
<1>4. ASSUME Once(s, p), AsksFor(Head(s), p) PROVE Never(rest, p)
  <2>1. PICK k \in 1..n : AsksFor(s[k], p) /\ \A j \in 1..n : AsksFor(s[j], p) => j = k
    BY <1>4 DEF Once
  <2> HIDE DEF rest, n
  <2> QED
    BY <1>1, <1>3, <1>4, <2>1 DEF Never
<1>5. ASSUME Once(s, p), ~AsksFor(Head(s), p) PROVE Once(rest, p)
  <2>1. PICK k \in 1..n : AsksFor(s[k], p) /\ \A j \in 1..n : AsksFor(s[j], p) => j = k
    BY <1>5 DEF Once
  <2> HIDE DEF rest, n
  <2>2. k # 1
    BY <1>1, <1>5, <2>1
  <2>3. k - 1 \in 1..(n - 1) /\ (k - 1) + 1 = k
    BY <1>2, <2>2
  <2>4. AsksFor(rest[k - 1], p)
    <3>1. rest[k - 1] = s[(k - 1) + 1]
      BY <1>1, <2>3
    <3> QED
      BY <2>1, <2>3, <3>1
  <2>5. ASSUME NEW j \in 1..(n - 1), AsksFor(rest[j], p) PROVE j = k - 1
    <3>1. AsksFor(s[j + 1], p) /\ j + 1 \in 1..n
      BY <1>1, <1>3, <2>5
    <3>2. j + 1 = k
      BY <2>1, <3>1
    <3> QED
      BY <3>2
  <2> QED
    BY <1>1, <2>3, <2>4, <2>5 DEF Once
<1>6. ASSUME Never(s, p) PROVE Never(rest, p) /\ ~AsksFor(Head(s), p)
  <2>1. \A j \in 1..n : ~AsksFor(s[j], p)
    BY <1>6 DEF Never
  <2> HIDE DEF rest, n
  <2> QED
    BY <1>1, <1>3, <2>1 DEF Never
<1> QED
    BY <1>4, <1>5, <1>6

LEMMA KnownMore ==
    ASSUME NEW s \in Seq(Events), NEW t \in Seq(Events), NEW request, NEW pasters,
           Known(s, request, pasters), Quiet(t)
    PROVE  Known(s \o t, request, pasters)
<1> SUFFICES ASSUME NEW p \in Pasters
             PROVE  KnownIs(s \o t, Holds(request, p), pasters, p)
    BY DEF Known
<1>1. KnownIs(s, Holds(request, p), pasters, p)
    BY DEF Known
<1>2. Never(t, p)
    BY DEF Quiet
<1>3. /\ Once(s, p) /\ Never(t, p) => Once(s \o t, p)
      /\ Never(s, p) /\ Never(t, p) => Never(s \o t, p)
    BY OnceBehind
<1> QED
    BY <1>1, <1>2, <1>3 DEF KnownIs

\* Taking the next event, which is no paster's request.
LEMMA KnownTail ==
    ASSUME NEW s \in Seq(Events), s # <<>>, NEW request, NEW pasters,
           Known(s, request, pasters), \A p \in Pasters : ~AsksFor(Head(s), p)
    PROVE  Known(Tail(s), request, pasters)
<1> SUFFICES ASSUME NEW p \in Pasters
             PROVE  KnownIs(Tail(s), Holds(request, p), pasters, p)
    BY DEF Known
<1>1. KnownIs(s, Holds(request, p), pasters, p)
    BY DEF Known
<1>2. /\ Once(s, p) /\ ~AsksFor(Head(s), p) => Once(Tail(s), p)
      /\ Never(s, p) => Never(Tail(s), p)
    BY OnceTail
<1> QED
    BY <1>1, <1>2 DEF KnownIs

-----------------------------------------------------------------------------
(* What this program, and an X server without an owner to ask, put behind  *)
(* the events: requests to itself and notifications.                       *)

QuietEvents == {e \in Events : \A p \in Pasters : ~AsksFor(e, p)}

\* Events have come behind others, none of them a paster's request.
Grows(before, after) ==
    /\ after \in Seq(Events) /\ Elements(before) \subseteq Elements(after)
    /\ \A request, pasters : Known(before, request, pasters) => Known(after, request, pasters)

LEMMA OwnEvents ==
    /\ \A s \in Selections, t \in Targets : AskedFor(s, t, "self") \in QuietEvents
    /\ \A s \in Selections, t \in Targets, done \in BOOLEAN : Notify(s, t, done) \in QuietEvents
    /\ RootNotify \in QuietEvents /\ WindowNotify \in QuietEvents /\ Clear \in QuietEvents
<1>1. ASSUME NEW s \in Selections, NEW t \in Targets
      PROVE  AskedFor(s, t, "self") \in QuietEvents
  <2>1. AskedFor(s, t, "self") \in Asking
    BY DEF AskedFor, Asking
  <2>2. \A p \in Pasters : ~AsksFor(AskedFor(s, t, "self"), p)
    BY XclipAssumption DEF AskedFor, AsksFor
  <2> QED
    BY <2>1, <2>2 DEF QuietEvents, Events
<1>2. ASSUME NEW s \in Selections, NEW t \in Targets, NEW done \in BOOLEAN
      PROVE  Notify(s, t, done) \in QuietEvents
  <2>1. Notify(s, t, done) \in Answering
    BY DEF Notify, Answering
  <2>2. \A p \in Pasters : ~AsksFor(Notify(s, t, done), p)
    BY DEF Notify, AsksFor
  <2> QED
    BY <2>1, <2>2 DEF QuietEvents, Events
<1>3. RootNotify \in QuietEvents /\ WindowNotify \in QuietEvents /\ Clear \in QuietEvents
  <2>1. \A p \in Pasters : ~AsksFor(RootNotify, p) /\ ~AsksFor(WindowNotify, p) /\ ~AsksFor(Clear, p)
    BY DEF RootNotify, WindowNotify, Clear, AsksFor
  <2>2. RootNotify \in Events /\ WindowNotify \in Events /\ Clear \in Events
    BY DEF Events
  <2> QED
    BY <2>1, <2>2 DEF QuietEvents
<1> QED
    BY <1>1, <1>2, <1>3

LEMMA QuietIs ==
    ASSUME NEW t \in Seq(QuietEvents)
    PROVE  t \in Seq(Events) /\ Quiet(t)
<1>1. QuietEvents \subseteq Events
    BY DEF QuietEvents
<1>2. \A i \in 1..Len(t) : t[i] \in QuietEvents
    BY ElementOfSeq
<1>3. t \in Seq(Events)
    BY <1>1
<1>4. Quiet(t)
    BY <1>2 DEF Quiet, Never, QuietEvents
<1> QED
    BY <1>3, <1>4

LEMMA GrowsBehind ==
    ASSUME NEW s \in Seq(Events), NEW t \in Seq(QuietEvents)
    PROVE  Grows(s, s \o t)
<1>1. t \in Seq(Events) /\ Quiet(t)
    BY QuietIs
<1>2. s \o t \in Seq(Events)
    BY <1>1, BehindIs
<1>3. Elements(s) \subseteq Elements(s \o t)
    BY <1>1, ElementsBehind
<1>4. ASSUME NEW request, NEW pasters, Known(s, request, pasters)
      PROVE  Known(s \o t, request, pasters)
    BY <1>1, <1>4, KnownMore
<1> QED
    BY <1>2, <1>3, <1>4 DEF Grows

LEMMA GrowsAppend ==
    ASSUME NEW s \in Seq(Events), NEW e \in QuietEvents
    PROVE  Grows(s, Append(s, e)) /\ e \in Elements(Append(s, e))
<1>1. <<e>> \in Seq(QuietEvents) /\ e \in Events
    BY DEF QuietEvents
<1>2. Append(s, e) = s \o <<e>>
    BY <1>1, AppendIsConcat
<1>3. Grows(s, s \o <<e>>)
    BY <1>1, GrowsBehind
<1>4. Elements(Append(s, e)) = Elements(s) \cup {e}
    BY <1>1, ElementsAppend
<1> QED
    BY <1>2, <1>3, <1>4

LEMMA GrowsTwice ==
    ASSUME NEW s, NEW t, NEW u, Grows(s, t), Grows(t, u)
    PROVE  Grows(s, u)
BY DEF Grows

LEMMA GrowsNone == \A s \in Seq(Events) : Grows(s, s)
BY DEF Grows

LEMMA ComingMore ==
    ASSUME NEW wishes, NEW more, NEW before, NEW after, NEW request, NEW s, NEW t,
           Elements(wishes) \subseteq Elements(more), Elements(before) \subseteq Elements(after),
           Coming(wishes, before, request, s, t)
    PROVE  Coming(more, after, request, s, t)
BY DEF Coming

\* Whoever is asked, and however, an answer is to come.
LEMMA ConvertIs ==
    ASSUME owner \in [Selections -> Others \cup {"self", Nobody}],
           NEW s \in Selections, NEW t \in Targets
    PROVE  /\ ToEvents(s, t) \in Seq(QuietEvents) /\ ToOthers(s, t) \in Seq(Wishes)
           /\ \/ \E e \in Elements(ToEvents(s, t)) : AnswerIs(e, s, t)
              \/ \E w \in Elements(ToOthers(s, t)) : WishIs(w, s, t)
<1> DEFINE asks == AskedFor(s, t, "self")
           refuses == Notify(s, t, FALSE)
           wish == [who |-> owner[s], selection |-> s, target |-> t]
<1>1. asks \in QuietEvents /\ refuses \in QuietEvents
    BY OwnEvents
<1>2. AnswerIs(asks, s, t) /\ AnswerIs(refuses, s, t) /\ WishIs(wish, s, t)
    BY DEF AskedFor, Notify, AnswerIs, WishIs
<1>3. owner[s] \in Others => wish \in Wishes
    BY DEF Wishes
<1>4. "self" \notin Others /\ Nobody \notin Others /\ Nobody # "self"
    BY DEF Others, Nobody
<1>5. Elements(<<asks>>) = {asks} /\ Elements(<<refuses>>) = {refuses} /\ Elements(<<wish>>) = {wish}
    BY ElementsFew
<1>6. /\ owner[s] = "self" => ToEvents(s, t) = <<asks>> /\ ToOthers(s, t) = <<>>
      /\ owner[s] = Nobody => ToEvents(s, t) = <<refuses>> /\ ToOthers(s, t) = <<>>
      /\ owner[s] \in Others => ToEvents(s, t) = <<>> /\ ToOthers(s, t) = <<wish>>
  <2>1. ToEvents(s, t) = CASE owner[s] = "self" -> <<asks>> [] owner[s] = Nobody -> <<refuses>>
                           [] OTHER -> <<>>
    BY DEF ToEvents
  <2>2. ToOthers(s, t) = IF owner[s] \in Others THEN <<wish>> ELSE <<>>
    BY DEF ToOthers
  <2> HIDE DEF asks, refuses, wish
  <2>3. CASE owner[s] = "self"
    BY <1>4, <2>1, <2>2, <2>3
  <2>4. CASE owner[s] = Nobody
    BY <1>4, <2>1, <2>2, <2>4
  <2>5. CASE owner[s] \in Others
    BY <1>4, <2>1, <2>2, <2>5
  <2> QED
    BY <2>3, <2>4, <2>5
<1> HIDE DEF asks, refuses, wish
<1>7. /\ <<asks>> \in Seq(QuietEvents) /\ <<refuses>> \in Seq(QuietEvents)
      /\ owner[s] \in Others => <<wish>> \in Seq(Wishes)
      /\ <<>> \in Seq(Wishes) /\ <<>> \in Seq(QuietEvents)
    BY <1>1, <1>3
<1>8. owner[s] = "self" \/ owner[s] = Nobody \/ owner[s] \in Others
    OBVIOUS
<1> QED
    BY <1>2, <1>5, <1>6, <1>7, <1>8

\* Asking keeps the types and what is known, and promises an answer.
Asks(before) == Grows(before, xevents') /\ asked' \in Seq(Wishes)

LEMMA AskIs ==
    ASSUME XclipTypes, NEW before \in Seq(Events), NEW s \in Selections, NEW t \in Targets,
           Ask(before, s, t)
    PROVE  Asks(before) /\ \A request : Coming(asked', xevents', request, s, t)
<1> DEFINE events == ToEvents(s, t)
           others == ToOthers(s, t)
<1>1. /\ events \in Seq(QuietEvents) /\ others \in Seq(Wishes)
      /\ \/ \E e \in Elements(events) : AnswerIs(e, s, t)
         \/ \E w \in Elements(others) : WishIs(w, s, t)
    BY ConvertIs DEF XclipTypes
<1>2. xevents' = before \o events /\ asked' = asked \o others
    BY DEF Ask
<1> HIDE DEF events, others
<1>3. Grows(before, xevents') /\ events \in Seq(Events)
    BY <1>1, <1>2, GrowsBehind, QuietIs
<1>4. Elements(xevents') = Elements(before) \cup Elements(events)
    BY <1>2, <1>3, ElementsBehind
<1>5. asked' \in Seq(Wishes) /\ Elements(asked') = Elements(asked) \cup Elements(others)
    BY <1>1, <1>2, ElementsBehind, BehindIs DEF XclipTypes
<1> QED
    BY <1>1, <1>3, <1>4, <1>5 DEF Asks, Coming

LEMMA AskForTimestampsIs ==
    ASSUME XclipTypes, NEW before \in Seq(Events), AskForTimestamps(before)
    PROVE  /\ Asks(before) /\ stamps' = {}
           /\ \A request : \A s \in Selections : Coming(asked', xevents', request, s, "TIMESTAMP")
<1> DEFINE t == "TIMESTAMP"
           one == ToEvents("PRIMARY", t)
           two == ToEvents("CLIPBOARD", t)
           ones == ToOthers("PRIMARY", t)
           twos == ToOthers("CLIPBOARD", t)
<1>1. "PRIMARY" \in Selections /\ "CLIPBOARD" \in Selections /\ t \in Targets
    BY DEF Selections, Targets
<1>2. /\ one \in Seq(QuietEvents) /\ ones \in Seq(Wishes)
      /\ \/ \E e \in Elements(one) : AnswerIs(e, "PRIMARY", t)
         \/ \E w \in Elements(ones) : WishIs(w, "PRIMARY", t)
    BY <1>1, ConvertIs DEF XclipTypes
<1>3. /\ two \in Seq(QuietEvents) /\ twos \in Seq(Wishes)
      /\ \/ \E e \in Elements(two) : AnswerIs(e, "CLIPBOARD", t)
         \/ \E w \in Elements(twos) : WishIs(w, "CLIPBOARD", t)
    BY <1>1, ConvertIs DEF XclipTypes
<1>4. stamps' = {} /\ xevents' = before \o one \o two /\ asked' = asked \o ones \o twos
    BY DEF AskForTimestamps
<1> DEFINE half == before \o one
           wishes == asked \o ones
<1> HIDE DEF t, one, two, ones, twos
<1>5. Grows(before, half) /\ one \in Seq(Events) /\ two \in Seq(Events)
    BY <1>2, <1>3, GrowsBehind, QuietIs
<1>6. half \in Seq(Events) /\ Elements(half) = Elements(before) \cup Elements(one)
    BY <1>5, ElementsBehind DEF Grows
<1>7. wishes \in Seq(Wishes) /\ Elements(wishes) = Elements(asked) \cup Elements(ones)
    BY <1>2, ElementsBehind, BehindIs DEF XclipTypes
<1>8. xevents' = half \o two /\ asked' = wishes \o twos
    BY <1>4
<1> HIDE DEF half, wishes
<1>9. Grows(half, xevents') /\ Elements(xevents') = Elements(half) \cup Elements(two)
    BY <1>3, <1>5, <1>6, <1>8, GrowsBehind, ElementsBehind
<1>10. asked' \in Seq(Wishes) /\ Elements(asked') = Elements(wishes) \cup Elements(twos)
    BY <1>3, <1>7, <1>8, ElementsBehind, BehindIs
<1>11. Asks(before)
    BY <1>5, <1>9, <1>10, GrowsTwice DEF Asks
<1>12. ASSUME NEW request
       PROVE  Coming(asked', xevents', request, "PRIMARY", t) /\ Coming(asked', xevents', request, "CLIPBOARD", t)
    BY <1>2, <1>3, <1>6, <1>7, <1>9, <1>10 DEF Coming
<1>13. \A s \in Selections : s = "PRIMARY" \/ s = "CLIPBOARD"
    BY DEF Selections
<1> QED
    BY <1>4, <1>11, <1>12, <1>13 DEF t

LEMMA AskOwnerIs ==
    ASSUME XclipTypes, NEW before \in Seq(Events), AskOwner(before)
    PROVE  /\ Asks(before) /\ stamps' \subseteq Selections
           /\ \A request : Sure(asked', xevents', request, stamps')
<1> USE DEF Targets
<1>1. CASE AskForTimestamps(before)
  <2>1. /\ Asks(before) /\ stamps' = {}
        /\ \A request : \A s \in Selections : Coming(asked', xevents', request, s, "TIMESTAMP")
    BY <1>1, AskForTimestampsIs
  <2>2. Selections # {}
    BY DEF Selections
  <2> QED
    BY <2>1, <2>2 DEF Sure
<1>2. CASE UNCHANGED stamps /\ \E s \in Selections : owner[s] # Nobody /\ Ask(before, s, "TARGETS")
  <2>1. PICK s \in Selections : Ask(before, s, "TARGETS")
    BY <1>2
  <2>2. Asks(before) /\ \A request : Coming(asked', xevents', request, s, "TARGETS")
    BY <2>1, AskIs
  <2>3. stamps' \subseteq Selections
    BY <1>2 DEF XclipTypes, Flags
  <2> QED
    BY <2>2, <2>3 DEF Sure
<1> QED
    BY <1>1, <1>2 DEF AskOwner

\* A probe keeps the types, whatever it finds.
LEMMA ProbeIs ==
    ASSUME XclipTypes, NEW before \in Seq(Events), Probe(before)
    PROVE  /\ Asks(before) /\ probing_selections' \in BOOLEAN /\ reprobe_selections' = FALSE
           /\ stamps' \subseteq Selections /\ stampProperties' = {}
<1>1. reprobe_selections' = FALSE /\ stampProperties' = {}
    BY DEF Probe, xclip_clear_target_props
<1>2. CASE probing_selections' = FALSE /\ xevents' = before /\ UNCHANGED <<stamps, asked>>
    BY <1>1, <1>2, GrowsNone DEF Asks, XclipTypes, Flags
<1>3. CASE probing_selections' = TRUE /\ AskOwner(before)
    BY <1>1, <1>3, AskOwnerIs
<1> QED
    BY <1>2, <1>3 DEF Probe

LEMMA ProbeSelectionsIs ==
    ASSUME XclipTypes, NEW before \in Seq(Events), xclip_probe_selections(before),
           UNCHANGED rdp_clipboard_request_format
    PROVE  Asks(before) /\ Flags'
<1>1. rdp_clipboard_request_format' \in BOOLEAN /\ rdesktop_is_selection_owner' \in BOOLEAN
    BY DEF XclipTypes, Flags, xclip_probe_selections
<1>2. CASE probing_selections
  <2>1. /\ reprobe_selections' = TRUE /\ xevents' = before
        /\ UNCHANGED <<probing_selections, stamps, properties, asked>>
    BY <1>2 DEF xclip_probe_selections
  <2> QED
    BY <1>1, <2>1, GrowsNone DEF Asks, XclipTypes, Flags, properties
<1>3. CASE ~probing_selections
  <2>1. Probe(before)
    BY <1>3 DEF xclip_probe_selections
  <2>2. /\ Asks(before) /\ probing_selections' \in BOOLEAN /\ reprobe_selections' = FALSE
        /\ stamps' \subseteq Selections /\ stampProperties' = {}
    BY <2>1, ProbeIs
  <2> QED
    BY <1>1, <2>2 DEF Flags
<1> QED
    BY <1>2, <1>3

LEMMA FailIs ==
    ASSUME XclipTypes, NEW before \in Seq(Events), Fail(before)
    PROVE  /\ Asks(before) /\ Flags'
           /\ ~probing_selections => rdp_clipboard_request_format' = FALSE
<1>1. xevents' = before /\ UNCHANGED <<reprobe_selections, stamps, asked>> /\ stampProperties' = {}
    BY DEF Fail, xclip_clear_target_props
<1>2. Asks(before)
    BY <1>1, GrowsNone DEF Asks, XclipTypes
<1>3. CASE probing_selections
    BY <1>1, <1>2, <1>3 DEF Fail, XclipTypes, Flags
<1>4. CASE ~probing_selections
    BY <1>1, <1>2, <1>4 DEF Fail, helper_cliprdr_send_response, XclipTypes, Flags
<1> QED
    BY <1>3, <1>4

-----------------------------------------------------------------------------
\* The next event, by its type.
LEMMA NextEvent ==
    ASSUME XclipTypes, NEW type, Event(type)
    PROVE  /\ xevents # <<>> /\ Head(xevents) \in Events /\ Head(xevents).type = type
           /\ Tail(xevents) \in Seq(Events)
           /\ Elements(xevents) = {Head(xevents)} \cup Elements(Tail(xevents))
<1>1. xevents \in Seq(Events) /\ xevents # <<>> /\ Head(xevents).type = type
    BY DEF XclipTypes, Event
<1> QED
    BY <1>1, ElementsTail

LEMMA EventKinds ==
    ASSUME NEW e \in Events
    PROVE  /\ e.type = "SelectionRequest" => e \in Asking
           /\ e.type = "SelectionNotify" => e \in Answering
           /\ e.type = "PropertyNotify" => e \in {RootNotify, WindowNotify}
<1>1. e \in Asking => e.type = "SelectionRequest"
    BY DEF Asking
<1>2. e \in Answering => e.type = "SelectionNotify"
    BY DEF Answering
<1>3. RootNotify.type = "PropertyNotify" /\ WindowNotify.type = "PropertyNotify"
      /\ Clear.type = "SelectionClear"
    BY DEF RootNotify, WindowNotify, Clear
<1>4. e \in Asking \/ e \in Answering \/ e = RootNotify \/ e = WindowNotify \/ e = Clear
    BY DEF Events
<1> QED
    BY <1>1, <1>2, <1>3, <1>4

\* An event that is no request of anybody is handled.
LEMMA TakenEvent ==
    ASSUME XclipTypes, Known(xevents, selection_request, pasting), NEW type, Event(type),
           type # "SelectionRequest", NEW after, Grows(Tail(xevents), after)
    PROVE  after \in Seq(Events) /\ Known(after, selection_request, pasting)
<1>1. /\ xevents # <<>> /\ Head(xevents).type = type /\ Tail(xevents) \in Seq(Events)
    BY NextEvent
<1>2. \A p \in Pasters : ~AsksFor(Head(xevents), p)
    BY <1>1 DEF AsksFor
<1>3. xevents \in Seq(Events)
    BY DEF XclipTypes
<1>4. Known(Tail(xevents), selection_request, pasting)
    BY <1>1, <1>2, <1>3, KnownTail
<1> QED
    BY <1>4 DEF Grows

-----------------------------------------------------------------------------
(* Asking for the server *)

\* A notification is handled; if it was not, the server waits no longer, or an
\* answer is still to come.
Handled(rest) ==
    /\ Asks(rest) /\ Flags'
    /\ rdp_clipboard_request_format /\ Awaited /\ rdp_clipboard_request_format' =>
           ~probing_selections' /\ property' # "INCR"
           /\ Sure(asked', xevents', selection_request, stamps')

LEMMA TimestampGood ==
    ASSUME XclipTypes, NEW event \in Answering, NEW rest \in Seq(Events),
           Elements(xevents) = {event} \cup Elements(rest),
           event.target = "TIMESTAMP", TimestampCame(event, rest)
    PROVE  Handled(rest)
<1>1. CASE event.selection \notin stampProperties
  <2>1. Fail(rest)
    BY <1>1 DEF TimestampCame
  <2> QED
    BY <2>1, FailIs DEF Handled, Awaited
<1>2. CASE event.selection \in stampProperties
  <2>1. event.selection \in Selections
    BY DEF Answering
  <2>2. /\ stamps' = stamps \cup {event.selection}
        /\ stampProperties' = stampProperties \ {event.selection}
        /\ UNCHANGED <<probing_selections, reprobe_selections, rdesktop_is_selection_owner,
                       property, rdp_clipboard_request_format>>
    BY <1>2 DEF TimestampCame
  <2>3. Flags'
    BY <2>1, <2>2 DEF XclipTypes, Flags
  <2>4. CASE stamps' = Selections
    <3>1. PICK newer \in Selections : Ask(rest, newer, "TARGETS")
      BY <1>2, <2>4 DEF TimestampCame
    <3>2. "TARGETS" \in Targets \ {"TIMESTAMP"}
      BY DEF Targets
    <3>3. Asks(rest) /\ \A request : Coming(asked', xevents', request, newer, "TARGETS")
      BY <3>1, <3>2, AskIs
    <3>4. Sure(asked', xevents', selection_request, stamps')
      BY <3>2, <3>3 DEF Sure
    <3> QED
      BY <2>2, <2>3, <3>3, <3>4 DEF Handled, Awaited
  <2>5. CASE stamps' # Selections
    <3>1. xevents' = rest /\ asked' = asked
      BY <1>2, <2>5 DEF TimestampCame
    <3>2. Asks(rest)
      BY <3>1, GrowsNone DEF Asks, XclipTypes
    <3>3. ASSUME NEW s \in Selections, NEW t \in Targets, s # event.selection \/ t # "TIMESTAMP",
                 Coming(asked, xevents, selection_request, s, t)
          PROVE  Coming(asked', xevents', selection_request, s, t)
      <4>1. ~AnswerIs(event, s, t)
        BY <3>3 DEF AnswerIs
      <4> QED
        BY <3>1, <3>3, <4>1 DEF Coming
    <3>4. ASSUME Awaited PROVE Sure(asked', xevents', selection_request, stamps')
      <4>1. CASE \E s \in Selections, t \in Targets \ {"TIMESTAMP"} :
                    Coming(asked, xevents, selection_request, s, t)
        BY <3>3, <4>1 DEF Sure
      <4>2. CASE \A s \in Selections \ stamps : Coming(asked, xevents, selection_request, s, "TIMESTAMP")
        <5>1. "TIMESTAMP" \in Targets
          BY DEF Targets
        <5>2. \A s \in Selections \ stamps' : Coming(asked', xevents', selection_request, s, "TIMESTAMP")
          BY <2>2, <3>3, <4>2, <5>1
        <5> QED
          BY <2>5, <5>2 DEF Sure
      <4> QED
        BY <3>4, <4>1, <4>2 DEF Awaited, Sure
    <3> QED
      BY <2>2, <2>3, <3>2, <3>4 DEF Handled, Awaited
  <2> QED
    BY <2>4, <2>5
<1> QED
    BY <1>1, <1>2

LEMMA TargetsGood ==
    ASSUME XclipTypes, NEW event \in Answering, NEW rest \in Seq(Events), TargetsCame(event, rest)
    PROVE  Handled(rest)
<1> DEFINE wish == CASE probing_selections /\ property = "native targets" -> "FORMATS"
                     [] ~probing_selections /\ property \in {"native targets", "text targets"} -> "TEXT"
                     [] OTHER -> "none"
<1>1. IF wish = "none" THEN Fail(rest)
      ELSE /\ Ask(rest, event.selection, wish)
           /\ xclip_clear_target_props
           /\ UNCHANGED <<probeVars, rdp_clipboard_request_format, incrVars>>
    BY DEF TargetsCame
<1>2. wish \in {"FORMATS", "TEXT", "none"} /\ "none" \notin Targets
    BY DEF Targets
<1> HIDE DEF wish
<1>3. CASE wish = "none"
    BY <1>1, <1>3, FailIs DEF Handled, Awaited
<1>4. CASE wish # "none"
  <2>1. event.selection \in Selections /\ wish \in Targets \ {"TIMESTAMP"}
    BY <1>2, <1>4 DEF Answering, Targets
  <2>2. Asks(rest) /\ \A request : Coming(asked', xevents', request, event.selection, wish)
    BY <1>1, <1>4, <2>1, AskIs
  <2>3. Sure(asked', xevents', selection_request, stamps')
    BY <2>1, <2>2 DEF Sure
  <2>4. /\ property' = "none" /\ stampProperties' = {}
        /\ UNCHANGED <<probeVars, rdp_clipboard_request_format>>
    BY <1>1, <1>4 DEF xclip_clear_target_props
  <2>5. Flags' /\ probing_selections' = probing_selections
    BY <2>4 DEF XclipTypes, Flags, probeVars
  <2> QED
    BY <2>2, <2>3, <2>4, <2>5 DEF Handled, Awaited
<1> QED
    BY <1>3, <1>4

\* Two ways to keep the promise: the wishes for it are kept, or new ones made.
LEMMA StillSure ==
    ASSUME NEW wishes, NEW events, NEW request, NEW more, NEW later, NEW next, NEW known,
           \A s \in Selections, t \in Targets :
               Coming(wishes, events, request, s, t) => Coming(more, later, next, s, t),
           Sure(wishes, events, request, known)
    PROVE  Sure(more, later, next, known)
<1>1. "TIMESTAMP" \in Targets
    BY DEF Targets
<1> QED
    BY <1>1 DEF Sure

LEMMA NotifyGood == ASSUME XclipState, xclip_handle_SelectionNotify PROVE XclipState'
<1> DEFINE event == Head(xevents)
           rest == Tail(xevents)
<1>1. XclipTypes /\ Known(xevents, selection_request, pasting)
      /\ (rdp_clipboard_request_format /\ ~crossed => Awaited)
    BY DEF XclipState
<1>2. /\ Event("SelectionNotify")
      /\ UNCHANGED <<selection_request, owner, crossed, pasting>>
    BY DEF xclip_handle_SelectionNotify, outside
<1>3. /\ event \in Events /\ event.type = "SelectionNotify" /\ rest \in Seq(Events)
      /\ Elements(xevents) = {event} \cup Elements(rest)
    BY <1>1, <1>2, NextEvent
<1>4. event \in Answering
    BY <1>3, EventKinds
<1>5. \/ ~event.done /\ Fail(rest)
      \/ event.target = "TIMESTAMP" /\ TimestampCame(event, rest)
      \/ /\ probing_selections /\ reprobe_selections
         /\ Probe(rest)
         /\ UNCHANGED <<rdesktop_is_selection_owner, rdp_clipboard_request_format, incrVars>>
      \/ property = "INCR" /\ IncrCame(rest)
      \/ TargetsCame(event, rest)
      \/ probing_selections /\ FormatsCame(rest)
      \/ ~probing_selections /\ DataCame(rest)
    BY DEF xclip_handle_SelectionNotify
<1> HIDE DEF event, rest
<1>6. Handled(rest)
  <2>1. CASE Fail(rest)
    BY <1>1, <1>3, <2>1, FailIs DEF Handled, Awaited
  <2>2. CASE event.target = "TIMESTAMP" /\ TimestampCame(event, rest)
    BY <1>1, <1>3, <1>4, <2>2, TimestampGood
  <2>3. CASE /\ probing_selections /\ Probe(rest)
             /\ UNCHANGED <<rdesktop_is_selection_owner, rdp_clipboard_request_format, incrVars>>
    <3>1. /\ Asks(rest) /\ probing_selections' \in BOOLEAN /\ reprobe_selections' = FALSE
          /\ stamps' \subseteq Selections /\ stampProperties' = {}
      BY <1>1, <1>3, <2>3, ProbeIs
    <3>2. Flags'
      BY <1>1, <2>3, <3>1 DEF XclipTypes, Flags
    <3> QED
      BY <2>3, <3>1, <3>2 DEF Handled, Awaited
  <2>4. CASE property = "INCR" /\ IncrCame(rest)
    <3>1. /\ xevents' = rest /\ stampProperties' = {}
          /\ UNCHANGED <<probeVars, asked, rdp_clipboard_request_format>>
      BY <2>4 DEF IncrCame, xclip_clear_target_props
    <3>2. Asks(rest) /\ Flags'
      BY <1>1, <1>3, <3>1, GrowsNone DEF Asks, XclipTypes, Flags, probeVars
    <3> QED
      BY <2>4, <3>2 DEF Handled, Awaited
  <2>5. CASE TargetsCame(event, rest)
    BY <1>1, <1>3, <1>4, <2>5, TargetsGood
  <2>6. CASE probing_selections /\ FormatsCame(rest)
    <3>1. CASE Fail(rest)
      BY <1>1, <1>3, <3>1, FailIs DEF Handled, Awaited
    <3>2. CASE ~Fail(rest)
      <4>1. /\ probing_selections' = FALSE /\ rdesktop_is_selection_owner' = TRUE
            /\ xevents' = rest /\ stampProperties' = {}
            /\ UNCHANGED <<reprobe_selections, stamps, asked, rdp_clipboard_request_format>>
        BY <2>6, <3>2 DEF FormatsCame, xclip_clear_target_props
      <4>2. Asks(rest) /\ Flags'
        BY <1>1, <1>3, <4>1, GrowsNone DEF Asks, XclipTypes, Flags
      <4> QED
        BY <2>6, <4>2 DEF Handled, Awaited
    <3> QED
      BY <3>1, <3>2
  <2>7. CASE ~probing_selections /\ DataCame(rest)
    <3>1. /\ xevents' = rest /\ stampProperties' = {} /\ rdp_clipboard_request_format' = FALSE
          /\ UNCHANGED <<probeVars, asked>>
      BY <2>7 DEF DataCame, xclip_clear_target_props, helper_cliprdr_send_response
    <3>2. Asks(rest) /\ Flags'
      BY <1>1, <1>3, <3>1, GrowsNone DEF Asks, XclipTypes, Flags, probeVars
    <3> QED
      BY <3>1, <3>2 DEF Handled
  <2> QED
    BY <1>5, <2>1, <2>2, <2>3, <2>4, <2>5, <2>6, <2>7
<1>7. xevents' \in Seq(Events) /\ Known(xevents', selection_request, pasting)
  <2>1. Grows(Tail(xevents), xevents')
    BY <1>6 DEF Handled, Asks, rest
  <2> QED
    BY <1>1, <1>2, <2>1, TakenEvent
<1>8. XclipTypes'
    BY <1>1, <1>2, <1>6, <1>7 DEF XclipTypes, Handled, Asks
<1>9. rdp_clipboard_request_format' /\ ~crossed' => rdp_clipboard_request_format
  <2>1. CASE Fail(rest)
    BY <2>1 DEF Fail, helper_cliprdr_send_response
  <2>2. CASE TimestampCame(event, rest)
    BY <2>1, <2>2 DEF TimestampCame
  <2>3. CASE rdp_clipboard_request_format' = rdp_clipboard_request_format
    BY <2>3
  <2>4. CASE TargetsCame(event, rest)
    BY <2>1, <2>4 DEF TargetsCame
  <2>5. CASE FormatsCame(rest)
    BY <2>1, <2>5 DEF FormatsCame
  <2>6. CASE DataCame(rest)
    BY <2>6 DEF DataCame, helper_cliprdr_send_response
  <2> QED
    BY <1>5, <2>1, <2>2, <2>3, <2>4, <2>5, <2>6 DEF IncrCame
<1>10. rdp_clipboard_request_format' /\ ~crossed' => Awaited'
    BY <1>1, <1>2, <1>6, <1>9 DEF Handled, Awaited
<1> QED
    BY <1>2, <1>7, <1>8, <1>10 DEF XclipState

LEMMA RequestDataGood == ASSUME XclipState, ui_clip_request_data PROVE XclipState'
<1>1. /\ XclipTypes /\ Known(xevents, selection_request, pasting) /\ xevents \in Seq(Events)
    BY DEF XclipState, XclipTypes
<1>2. /\ rdp_clipboard_request_format' = ~probing_selections
      /\ UNCHANGED <<probing_selections, reprobe_selections, rdesktop_is_selection_owner,
                     selection_request, owner, pasting>>
    BY DEF ui_clip_request_data
<1>3. Flags' /\ Asks(xevents)
      /\ (~probing_selections =>
             property' # "INCR" /\ \A request : Sure(asked', xevents', request, stamps'))
  <2>1. CASE probing_selections
    <3>1. UNCHANGED <<properties, stamps, asked, xevents>>
      BY <2>1 DEF ui_clip_request_data
    <3>2. Flags'
      BY <1>1, <1>2, <2>1, <3>1 DEF XclipTypes, Flags, properties
    <3>3. Asks(xevents)
      BY <1>1, <3>1, GrowsNone DEF Asks, XclipTypes
    <3> QED
      BY <2>1, <3>2, <3>3
  <2>2. CASE ~probing_selections
    <3>1. /\ stampProperties' = {}
          /\ \/ property' = "format" /\ Ask(xevents, "PRIMARY", "NATIVE") /\ UNCHANGED stamps
             \/ property' = "none" /\ AskOwner(xevents)
      BY <2>2 DEF ui_clip_request_data
    <3>2. CASE property' = "format" /\ Ask(xevents, "PRIMARY", "NATIVE") /\ UNCHANGED stamps
      <4>1. "PRIMARY" \in Selections /\ "NATIVE" \in Targets \ {"TIMESTAMP"}
        BY DEF Selections, Targets
      <4>2. Asks(xevents) /\ \A request : Coming(asked', xevents', request, "PRIMARY", "NATIVE")
        BY <1>1, <3>2, <4>1, AskIs
      <4>3. \A request : Sure(asked', xevents', request, stamps')
        BY <4>1, <4>2 DEF Sure
      <4>4. Flags'
        BY <1>1, <1>2, <2>2, <3>1, <3>2 DEF XclipTypes, Flags
      <4> QED
        BY <3>2, <4>2, <4>3, <4>4
    <3>3. CASE property' = "none" /\ AskOwner(xevents)
      <4>1. /\ Asks(xevents) /\ stamps' \subseteq Selections
            /\ \A request : Sure(asked', xevents', request, stamps')
        BY <1>1, <3>3, AskOwnerIs
      <4>2. Flags'
        BY <1>1, <1>2, <2>2, <3>1, <4>1 DEF XclipTypes, Flags
      <4> QED
        BY <3>3, <4>1, <4>2
    <3> QED
      BY <3>1, <3>2, <3>3
  <2> QED
    BY <2>1, <2>2
<1>4. xevents' \in Seq(Events) /\ Known(xevents', selection_request, pasting)
    BY <1>1, <1>3 DEF Asks, Grows
<1>5. XclipTypes'
    BY <1>1, <1>2, <1>3, <1>4 DEF XclipTypes, Asks
<1>6. rdp_clipboard_request_format' => Awaited'
    BY <1>2, <1>3 DEF Awaited
<1> QED
    BY <1>2, <1>4, <1>5, <1>6 DEF XclipState

\* What crosses the server's request: a probe, for the server or of itself.
LEMMA CrossedGood ==
    ASSUME XclipTypes, Flags', NEW before, Asks(before), crossed',
           UNCHANGED <<owner, selection_request, pasting>>,
           xevents' \in Seq(Events), Known(xevents', selection_request, pasting)
    PROVE  XclipState'
<1>1. XclipTypes'
    BY DEF XclipTypes, Asks
<1> QED
    BY <1>1 DEF XclipState

LEMMA PieceGood == ASSUME XclipState, PieceCame PROVE XclipState'
<1>1. /\ XclipTypes /\ Known(xevents, selection_request, pasting) /\ xevents \in Seq(Events)
      /\ (rdp_clipboard_request_format /\ ~crossed => Awaited)
    BY DEF XclipState, XclipTypes
<1>2. /\ Event("PropertyNotify") /\ xevents' = Tail(xevents) /\ property' = "none"
      /\ UNCHANGED <<probeVars, selection_request, owner, asked, stampProperties, crossed, pasting>>
    BY DEF PieceCame, outside
<1>3. rdp_clipboard_request_format' \in {FALSE, rdp_clipboard_request_format}
    BY DEF PieceCame, helper_cliprdr_send_response
<1>4. /\ Tail(xevents) \in Seq(Events) /\ Head(xevents) \in Events
      /\ Head(xevents).type = "PropertyNotify"
      /\ Elements(xevents) = {Head(xevents)} \cup Elements(Tail(xevents))
    BY <1>1, <1>2, NextEvent
<1>5. xevents' \in Seq(Events) /\ Known(xevents', selection_request, pasting)
  <2>1. Grows(Tail(xevents), xevents')
    BY <1>2, <1>4, GrowsNone
  <2> QED
    BY <1>1, <1>2, <2>1, TakenEvent
<1>6. XclipTypes'
    BY <1>1, <1>2, <1>3, <1>5 DEF XclipTypes, Flags, probeVars
<1>7. \A s \in Selections, t \in Targets :
          Coming(asked, xevents, selection_request, s, t) => Coming(asked', xevents', selection_request', s, t)
  <2>1. \A s, t : ~AnswerIs(Head(xevents), s, t)
    BY <1>4 DEF AnswerIs
  <2> QED
    BY <1>2, <1>4, <2>1 DEF Coming
<1>8. stamps' = stamps /\ probing_selections' = probing_selections
    BY <1>2 DEF probeVars
<1>9. Awaited => Awaited'
    BY <1>2, <1>7, <1>8, StillSure DEF Awaited
<1>10. rdp_clipboard_request_format' => rdp_clipboard_request_format
    BY <1>1, <1>3 DEF XclipTypes, Flags
<1>11. rdp_clipboard_request_format' /\ ~crossed' => Awaited'
    BY <1>1, <1>2, <1>9, <1>10
<1> QED
    BY <1>2, <1>5, <1>6, <1>11 DEF XclipState

LEMMA RootGood == ASSUME XclipState, RootChanged PROVE XclipState'
<1>1. /\ XclipTypes /\ Known(xevents, selection_request, pasting) /\ xevents \in Seq(Events)
      /\ (rdp_clipboard_request_format /\ ~crossed => Awaited)
    BY DEF XclipState, XclipTypes
<1>2. /\ Event("PropertyNotify")
      /\ UNCHANGED <<rdp_clipboard_request_format, selection_request, owner, pasting>>
    BY DEF RootChanged
<1>3. /\ Tail(xevents) \in Seq(Events) /\ Head(xevents) \in Events
      /\ Head(xevents).type = "PropertyNotify"
      /\ Elements(xevents) = {Head(xevents)} \cup Elements(Tail(xevents))
    BY <1>1, <1>2, NextEvent
<1>4. CASE xclip_probe_selections(Tail(xevents)) /\ crossed' = TRUE
  <2>1. Asks(Tail(xevents)) /\ Flags'
    BY <1>1, <1>2, <1>3, <1>4, ProbeSelectionsIs
  <2>2. xevents' \in Seq(Events) /\ Known(xevents', selection_request, pasting)
    BY <1>1, <1>2, <2>1, TakenEvent DEF Asks
  <2> QED
    BY <1>1, <1>2, <1>4, <2>1, <2>2, CrossedGood
<1>5. CASE xevents' = Tail(xevents) /\ UNCHANGED <<probeVars, properties, asked, crossed>>
  <2>1. xevents' \in Seq(Events) /\ Known(xevents', selection_request, pasting)
    <3>1. Grows(Tail(xevents), xevents')
      BY <1>3, <1>5, GrowsNone
    <3> QED
      BY <1>1, <1>2, <3>1, TakenEvent
  <2>2. XclipTypes'
    BY <1>1, <1>2, <1>5, <2>1 DEF XclipTypes, Flags, probeVars, properties
  <2>3. \A s \in Selections, t \in Targets :
            Coming(asked, xevents, selection_request, s, t) => Coming(asked', xevents', selection_request', s, t)
    <3>1. \A s, t : ~AnswerIs(Head(xevents), s, t)
      BY <1>3 DEF AnswerIs
    <3> QED
      BY <1>2, <1>3, <1>5, <3>1 DEF Coming
  <2>4. stamps' = stamps /\ probing_selections' = probing_selections /\ property' = property
    BY <1>5 DEF probeVars, properties
  <2>5. Awaited => Awaited'
    BY <2>3, <2>4, StillSure DEF Awaited
  <2> QED
    BY <1>1, <1>2, <1>5, <2>1, <2>2, <2>5 DEF XclipState
<1> QED
    BY <1>4, <1>5 DEF RootChanged

LEMMA ClearGood == ASSUME XclipState, xclip_handle_SelectionClear PROVE XclipState'
<1> DEFINE before == Append(Tail(xevents), RootNotify)
<1>1. /\ XclipTypes /\ Known(xevents, selection_request, pasting)
    BY DEF XclipState
<1>2. /\ Event("SelectionClear") /\ xclip_probe_selections(before) /\ crossed' = TRUE
      /\ UNCHANGED <<rdp_clipboard_request_format, selection_request, owner, pasting>>
    BY DEF xclip_handle_SelectionClear
<1>3. Tail(xevents) \in Seq(Events)
    BY <1>1, <1>2, NextEvent
<1>4. Grows(Tail(xevents), before) /\ before \in Seq(Events)
    BY <1>3, GrowsAppend, OwnEvents DEF Grows
<1> HIDE DEF before
<1>5. Asks(before) /\ Flags'
    BY <1>1, <1>2, <1>4, ProbeSelectionsIs
<1>6. xevents' \in Seq(Events) /\ Known(xevents', selection_request, pasting)
  <2>1. Grows(Tail(xevents), xevents')
    BY <1>4, <1>5, GrowsTwice DEF Asks
  <2> QED
    BY <1>1, <1>2, <2>1, TakenEvent
<1> QED
    BY <1>1, <1>2, <1>5, <1>6, CrossedGood

-----------------------------------------------------------------------------
(* Asking the server, and the other programs *)

\* Nothing about the server's request changes but where the answer is.
Moves ==
    /\ UNCHANGED <<rdp_clipboard_request_format, stamps, probing_selections>>
    /\ ~crossed' => ~crossed /\ (property' = "INCR" => property = "INCR")
    /\ \A s \in Selections, t \in Targets :
           Coming(asked, xevents, selection_request, s, t)
               => Coming(asked', xevents', selection_request', s, t)

LEMMA MovesGood ==
    ASSUME XclipState, XclipTypes', Known(xevents', selection_request', pasting'), Moves
    PROVE  XclipState'
<1>1. (rdp_clipboard_request_format /\ ~crossed => Awaited)
    BY DEF XclipState
<1>2. Awaited /\ ~crossed' => Awaited'
    BY StillSure DEF Awaited, Moves
<1>3. rdp_clipboard_request_format' /\ ~crossed' => Awaited'
    BY <1>1, <1>2 DEF Moves
<1> QED
    BY <1>3 DEF XclipState

\* An answer keeps the types; this program's own comes back as a notification.
LEMMA ReplyIs ==
    ASSUME XclipTypes, NEW request \in Asking, NEW before \in Seq(Events), NEW content,
           Reply(request, before, content)
    PROVE  /\ pasting' \subseteq Pasters /\ stampProperties' \subseteq Selections
           /\ property' \in {property, content}
           /\ xevents' \in Seq(Events) /\ Elements(before) \subseteq Elements(xevents')
           /\ request.who = "self" =>
                  /\ pasting' = pasting /\ Grows(before, xevents')
                  /\ \E e \in Elements(xevents') : AnswerIs(e, request.selection, request.target)
           /\ request.who # "self" => xevents' = before /\ pasting' = pasting \ {request.who}
<1>1. request.selection \in Selections /\ request.target \in Targets
    BY DEF Asking
<1>2. CASE request.who = "self"
  <2> DEFINE e == Notify(request.selection, request.target, content # "none")
  <2>1. e \in QuietEvents
    BY <1>1, OwnEvents
  <2>2. AnswerIs(e, request.selection, request.target)
    BY DEF Notify, AnswerIs
  <2>3. xevents' = Append(before, e) /\ pasting' = pasting
        /\ (\/ stampProperties' = stampProperties \cup {request.selection} /\ UNCHANGED property
            \/ property' \in {property, content} /\ UNCHANGED stampProperties)
    BY <1>2 DEF Reply
  <2> HIDE DEF e
  <2>4. Grows(before, xevents') /\ e \in Elements(xevents')
    BY <2>1, <2>3, GrowsAppend
  <2> QED
    BY <1>1, <1>2, <2>2, <2>3, <2>4 DEF XclipTypes, Flags, Grows
<1>3. CASE request.who # "self"
  <2>1. xevents' = before /\ pasting' = pasting \ {request.who} /\ UNCHANGED properties
    BY <1>3 DEF Reply
  <2> QED
    BY <1>3, <2>1 DEF XclipTypes, Flags, properties
<1> QED
    BY <1>2, <1>3

LEMMA SelfIsNoPaster ==
    ASSUME NEW e, e.type = "SelectionRequest", e.who = "self"
    PROVE  \A p \in Pasters : ~AsksFor(e, p)
BY XclipAssumption DEF AsksFor

\* The request that is next is answered.
LEMMA AnsweredGood ==
    ASSUME XclipState, Event("SelectionRequest"), NEW content, content # "INCR",
           Reply(Head(xevents), Tail(xevents), content), UNCHANGED selection_request,
           UNCHANGED <<probeVars, rdp_clipboard_request_format, incrVars, owner, asked, outside>>
    PROVE  XclipState'
<1> DEFINE request == Head(xevents)
           rest == Tail(xevents)
<1>1. /\ XclipTypes /\ Known(xevents, selection_request, pasting) /\ xevents \in Seq(Events)
    BY DEF XclipState, XclipTypes
<1>2. /\ xevents # <<>> /\ request \in Events /\ request.type = "SelectionRequest"
      /\ rest \in Seq(Events) /\ Elements(xevents) = {request} \cup Elements(rest)
    BY <1>1, NextEvent
<1>3. request \in Asking
    BY <1>2, EventKinds
<1>4. /\ pasting' \subseteq Pasters /\ stampProperties' \subseteq Selections
      /\ property' \in {property, content}
      /\ xevents' \in Seq(Events) /\ Elements(rest) \subseteq Elements(xevents')
      /\ request.who = "self" =>
             /\ pasting' = pasting /\ Grows(rest, xevents')
             /\ \E e \in Elements(xevents') : AnswerIs(e, request.selection, request.target)
      /\ request.who # "self" => xevents' = rest /\ pasting' = pasting \ {request.who}
    BY <1>1, <1>2, <1>3, ReplyIs
<1>5. XclipTypes'
    BY <1>1, <1>4 DEF XclipTypes, Flags, probeVars
<1>6. Known(xevents', selection_request, pasting')
  <2>1. CASE request.who = "self"
    <3>1. \A p \in Pasters : ~AsksFor(request, p)
      BY <1>2, <2>1, SelfIsNoPaster
    <3>2. Known(rest, selection_request, pasting)
      BY <1>1, <1>2, <3>1, KnownTail
    <3> QED
      BY <1>4, <2>1, <3>2 DEF Grows
  <2>2. CASE request.who # "self"
    <3> SUFFICES ASSUME NEW p \in Pasters
                 PROVE  KnownIs(rest, Holds(selection_request, p), pasting \ {request.who}, p)
      BY <1>4, <2>2 DEF Known
    <3>1. KnownIs(xevents, Holds(selection_request, p), pasting, p)
      BY <1>1 DEF Known
    <3>2. /\ Once(xevents, p) /\ AsksFor(request, p) => Never(rest, p)
          /\ Once(xevents, p) /\ ~AsksFor(request, p) => Once(rest, p)
          /\ Never(xevents, p) => Never(rest, p) /\ ~AsksFor(request, p)
      BY <1>1, <1>2, OnceTail
    <3>3. AsksFor(request, p) <=> request.who = p
      BY <1>2 DEF AsksFor
    <3> HIDE DEF request, rest
    <3> QED
      BY <3>1, <3>2, <3>3 DEF KnownIs
  <2> QED
    BY <2>1, <2>2
<1>7. ASSUME NEW s \in Selections, NEW t \in Targets, Coming(asked, xevents, selection_request, s, t)
      PROVE  Coming(asked, xevents', selection_request, s, t)
  <2>1. CASE AnswerIs(request, s, t)
    <3>1. request.who = "self" /\ request.selection = s /\ request.target = t
      BY <1>2, <2>1 DEF AnswerIs
    <3> QED
      BY <1>4, <3>1 DEF Coming
  <2>2. CASE ~AnswerIs(request, s, t)
    BY <1>2, <1>4, <1>7, <2>2 DEF Coming
  <2> QED
    BY <2>1, <2>2
<1>8. property' = "INCR" => property = "INCR"
    BY <1>4
<1>9. Moves
    BY <1>7, <1>8 DEF Moves, probeVars, outside
<1> QED
    BY <1>5, <1>6, <1>9, MovesGood

\* The request that is next is passed on to the server.
LEMMA PassedOnGood ==
    ASSUME XclipState, Event("SelectionRequest"), selection_request = <<>>,
           selection_request' = <<Head(xevents)>>, xevents' = Tail(xevents),
           property' \in {"none", property}, UNCHANGED <<stampProperties, pasting>>,
           UNCHANGED <<probeVars, rdp_clipboard_request_format, incrVars, owner, asked, outside>>
    PROVE  XclipState'
<1> DEFINE request == Head(xevents)
           rest == Tail(xevents)
<1>1. /\ XclipTypes /\ Known(xevents, selection_request, pasting) /\ xevents \in Seq(Events)
    BY DEF XclipState, XclipTypes
<1>2. /\ xevents # <<>> /\ request \in Events /\ request.type = "SelectionRequest"
      /\ rest \in Seq(Events) /\ Elements(xevents) = {request} \cup Elements(rest)
    BY <1>1, NextEvent
<1>3. request \in Asking
    BY <1>2, EventKinds
<1>4. /\ <<request>> \in Seq(Asking) /\ Len(<<request>>) <= 1 /\ <<request>> # <<>>
      /\ <<request>>[1] = request
    BY <1>3
<1>5. Elements(<<request>>) = {request} /\ Elements(<<>>) = {}
    BY ElementsFew
<1>6. xevents' = rest /\ selection_request' = <<request>>
    OBVIOUS
<1>7. ASSUME NEW p \in Pasters
      PROVE  /\ Once(xevents, p) /\ AsksFor(request, p) => Never(rest, p)
             /\ Once(xevents, p) /\ ~AsksFor(request, p) => Once(rest, p)
             /\ Never(xevents, p) => Never(rest, p) /\ ~AsksFor(request, p)
    BY <1>1, <1>2, OnceTail
<1> HIDE DEF request, rest
<1>8. XclipTypes'
    BY <1>1, <1>2, <1>4, <1>6 DEF XclipTypes, Flags, probeVars
<1>9. Known(xevents', selection_request', pasting')
  <2> SUFFICES ASSUME NEW p \in Pasters
               PROVE  KnownIs(rest, Holds(<<request>>, p), pasting, p)
    BY <1>6 DEF Known
  <2>1. KnownIs(xevents, Holds(<<>>, p), pasting, p)
    BY <1>1 DEF Known
  <2>2. ~Holds(<<>>, p)
    BY DEF Holds
  <2>3. Holds(<<request>>, p) <=> AsksFor(request, p)
    BY <1>2, <1>4 DEF Holds, AsksFor
  <2> QED
    BY <1>7, <2>1, <2>2, <2>3 DEF KnownIs
<1>10. \A s \in Selections, t \in Targets :
           Coming(asked, xevents, selection_request, s, t) => Coming(asked', xevents', selection_request', s, t)
    BY <1>2, <1>5, <1>6 DEF Coming
<1>11. Moves
    BY <1>10 DEF Moves, probeVars, outside
<1> QED
    BY <1>8, <1>9, <1>11, MovesGood

LEMMA SelectionRequestGood == ASSUME XclipState, xclip_handle_SelectionRequest PROVE XclipState'
<1> DEFINE request == Head(xevents)
           rest == Tail(xevents)
<1>1. /\ Event("SelectionRequest")
      /\ UNCHANGED <<probeVars, rdp_clipboard_request_format, incrVars, owner, asked, outside>>
    BY DEF xclip_handle_SelectionRequest
<1>2. CASE Reply(request, rest, AtHand(request.target)) /\ UNCHANGED selection_request
           /\ request.target \in {"TIMESTAMP", "TARGETS", "FORMATS"}
  <2>1. AtHand(request.target) # "INCR"
    BY <1>2 DEF AtHand
  <2> QED
    BY <1>1, <1>2, <2>1, AnsweredGood
<1>3. CASE MayTake(request) /\ selection_request' = <<request>> /\ xevents' = rest
           /\ property' = (IF Named(request) THEN "none" ELSE property)
           /\ UNCHANGED <<stampProperties, pasting>>
  <2>1. selection_request = <<>> /\ property' \in {"none", property}
    BY <1>3 DEF MayTake
  <2> QED
    BY <1>1, <1>3, <2>1, PassedOnGood
<1>4. CASE Reply(request, rest, "none") /\ UNCHANGED selection_request
    BY <1>1, <1>4, AnsweredGood
<1> QED
    BY <1>2, <1>3, <1>4 DEF xclip_handle_SelectionRequest

LEMMA HandleDataGood == ASSUME XclipState, ui_clip_handle_data PROVE XclipState'
<1> DEFINE request == Head(selection_request)
<1>1. /\ XclipTypes /\ Known(xevents, selection_request, pasting) /\ xevents \in Seq(Events)
      /\ selection_request \in Seq(Asking)
    BY DEF XclipState, XclipTypes
<1>2. /\ selection_request # <<>> /\ selection_request' = <<>>
      /\ UNCHANGED <<probeVars, rdp_clipboard_request_format, incrVars, owner, asked, outside>>
    BY DEF ui_clip_handle_data
<1>3. PICK content \in {"none", "data"} : Reply(request, xevents, content)
    BY DEF ui_clip_handle_data
<1>4. /\ request \in Asking /\ Elements(selection_request) = {request} \cup Elements(Tail(selection_request))
      /\ selection_request[1] = request /\ Tail(selection_request) = <<>>
  <2>1. Len(selection_request) = 1
    <3>1. Len(selection_request) \in Nat /\ Len(selection_request) <= 1
      BY <1>1, LenProperties DEF XclipTypes
    <3>2. Len(selection_request) # 0
      BY <1>1, <1>2, EmptySeq
    <3> QED
      BY <3>1, <3>2
  <2>2. Tail(selection_request) \in Seq(Asking) /\ Len(Tail(selection_request)) = 0
    BY <1>1, <1>2, <2>1, HeadTailProperties
  <2>3. Tail(selection_request) = <<>>
    BY <2>2, EmptySeq
  <2> QED
    BY <1>1, <1>2, <2>3, ElementsTail
<1>5. Elements(selection_request) = {request} /\ Elements(<<>>) = {}
    BY <1>4, ElementsFew
<1>6. /\ pasting' \subseteq Pasters /\ stampProperties' \subseteq Selections
      /\ property' \in {property, content}
      /\ xevents' \in Seq(Events) /\ Elements(xevents) \subseteq Elements(xevents')
      /\ request.who = "self" =>
             /\ pasting' = pasting /\ Grows(xevents, xevents')
             /\ \E e \in Elements(xevents') : AnswerIs(e, request.selection, request.target)
      /\ request.who # "self" => xevents' = xevents /\ pasting' = pasting \ {request.who}
    BY <1>1, <1>3, <1>4, ReplyIs
<1>7. <<>> \in Seq(Asking) /\ Len(<<>>) <= 1
    OBVIOUS
<1> HIDE DEF request
<1>8. XclipTypes'
    BY <1>1, <1>2, <1>6, <1>7 DEF XclipTypes, Flags, probeVars
<1>9. Known(xevents', selection_request', pasting')
  <2> SUFFICES ASSUME NEW p \in Pasters
               PROVE  KnownIs(xevents', Holds(<<>>, p), pasting', p)
    BY <1>2 DEF Known
  <2>1. ~Holds(<<>>, p) /\ (Holds(selection_request, p) <=> request.who = p)
    BY <1>2, <1>4 DEF Holds
  <2>2. CASE request.who = "self"
    <3>1. Known(xevents', selection_request, pasting)
      BY <1>1, <1>6, <2>2 DEF Grows
    <3>2. KnownIs(xevents', Holds(selection_request, p), pasting, p)
      BY <3>1 DEF Known
    <3>3. request.who # p
      BY <2>2, XclipAssumption
    <3> QED
      BY <1>6, <2>1, <2>2, <3>2, <3>3 DEF KnownIs
  <2>3. CASE request.who # "self"
    <3>1. KnownIs(xevents, Holds(selection_request, p), pasting, p)
      BY <1>1 DEF Known
    <3> QED
      BY <1>6, <2>1, <2>3, <3>1 DEF KnownIs
  <2> QED
    BY <2>2, <2>3
<1>10. ASSUME NEW s \in Selections, NEW t \in Targets, Coming(asked, xevents, selection_request, s, t)
       PROVE  Coming(asked, xevents', <<>>, s, t)
  <2>1. CASE AnswerIs(request, s, t)
    <3>1. request.who = "self" /\ request.selection = s /\ request.target = t
      BY <1>4, <2>1 DEF AnswerIs, Asking
    <3> QED
      BY <1>6, <3>1 DEF Coming
  <2>2. CASE ~AnswerIs(request, s, t)
    BY <1>5, <1>6, <1>10, <2>2 DEF Coming
  <2> QED
    BY <2>1, <2>2
<1>11. property' = "INCR" => property = "INCR"
    BY <1>6
<1>12. Moves
    BY <1>2, <1>10, <1>11 DEF Moves, probeVars, outside
<1> QED
    BY <1>8, <1>9, <1>12, MovesGood

\* Only events have come, and the owners may have changed.
LEMMA EventsGood ==
    ASSUME XclipState, Grows(xevents, xevents'),
           owner' \in [Selections -> Others \cup {"self", Nobody}],
           UNCHANGED <<probeVars, rdp_clipboard_request_format, selection_request, asked,
                       properties, crossed, pasting>>
    PROVE  XclipState'
<1>1. XclipTypes /\ Known(xevents, selection_request, pasting)
    BY DEF XclipState
<1>2. XclipTypes' /\ Known(xevents', selection_request', pasting')
    BY <1>1 DEF XclipTypes, Flags, probeVars, properties, Grows
<1>3. \A s \in Selections, t \in Targets :
          Coming(asked, xevents, selection_request, s, t) => Coming(asked, xevents', selection_request, s, t)
    BY ComingMore DEF Grows
<1>4. Moves
    BY <1>3 DEF Moves, probeVars, properties
<1> QED
    BY <1>2, <1>4, MovesGood

LEMMA AnnounceGood == ASSUME XclipState, ui_clip_format_announce PROVE XclipState'
<1>1. /\ owner \in [Selections -> Others \cup {"self", Nobody}] /\ xevents \in Seq(Events)
    BY DEF XclipState, XclipTypes
<1>2. PICK taken \in {Selections, {"CLIPBOARD"}} :
          owner' = [selection \in Selections |-> IF selection \in taken THEN "self" ELSE owner[selection]]
    BY DEF ui_clip_format_announce
<1>3. owner' \in [Selections -> Others \cup {"self", Nobody}]
    BY <1>1, <1>2
<1>4. Grows(xevents, xevents')
    BY <1>1, GrowsAppend, OwnEvents DEF ui_clip_format_announce
<1> QED
    BY <1>3, <1>4, EventsGood DEF ui_clip_format_announce

LEMMA SyncGood == ASSUME XclipState, ui_clip_sync PROVE XclipState'
<1>1. XclipTypes /\ Known(xevents, selection_request, pasting) /\ xevents \in Seq(Events)
    BY DEF XclipState, XclipTypes
<1>2. /\ xclip_probe_selections(xevents) /\ crossed' = TRUE
      /\ UNCHANGED <<rdp_clipboard_request_format, selection_request, owner, pasting>>
    BY DEF ui_clip_sync
<1>3. Asks(xevents) /\ Flags'
    BY <1>1, <1>2, ProbeSelectionsIs
<1>4. xevents' \in Seq(Events) /\ Known(xevents', selection_request, pasting)
    BY <1>1, <1>3 DEF Asks, Grows
<1> QED
    BY <1>1, <1>2, <1>3, <1>4, CrossedGood

LEMMA TakeOverGood ==
    ASSUME XclipState, NEW who \in Others \cup {Nobody}, NEW taken \in SUBSET Selections,
           TakeOver(who, taken)
    PROVE  XclipState'
<1> DEFINE lost == {selection \in taken : owner[selection] = "self"}
           told == [k \in 1..Cardinality(lost) |-> Clear]
           said == IF who = "fellow" THEN <<RootNotify>> ELSE <<>>
<1>1. /\ owner \in [Selections -> Others \cup {"self", Nobody}] /\ xevents \in Seq(Events)
    BY DEF XclipState, XclipTypes
<1>2. /\ owner' = [selection \in Selections |-> IF selection \in taken THEN who ELSE owner[selection]]
      /\ xevents' = xevents \o told \o said
      /\ UNCHANGED <<probeVars, rdp_clipboard_request_format, selection_request, asked,
                     properties, crossed, pasting>>
    BY DEF TakeOver
<1>3. Cardinality(lost) \in Nat
  <2>1. IsFiniteSet(Selections)
    <3>1. IsFiniteSet({"PRIMARY"})
      BY FS_Singleton
    <3>2. IsFiniteSet({"PRIMARY"} \cup {"CLIPBOARD"})
      BY <3>1, FS_AddElement
    <3>3. Selections = {"PRIMARY"} \cup {"CLIPBOARD"}
      BY DEF Selections
    <3> QED
      BY <3>2, <3>3
  <2>2. lost \subseteq Selections
    OBVIOUS
  <2> QED
    BY <2>1, <2>2, FS_Subset, FS_CardinalityType
<1>4. told \in Seq(QuietEvents)
    BY <1>3, OwnEvents, SeqOfLength
<1>5. said \in Seq(QuietEvents)
    BY OwnEvents
<1> HIDE DEF told, said
<1> DEFINE half == xevents \o told
<1>6. Grows(xevents, half)
    BY <1>1, <1>4, GrowsBehind
<1>7. half \in Seq(Events)
    BY <1>6 DEF Grows
<1> HIDE DEF half
<1>8. Grows(half, half \o said)
    BY <1>5, <1>7, GrowsBehind
<1>9. Grows(xevents, xevents')
    BY <1>2, <1>6, <1>8, GrowsTwice DEF half
<1>10. owner' \in [Selections -> Others \cup {"self", Nobody}]
    BY <1>1, <1>2
<1> QED
    BY <1>2, <1>9, <1>10, EventsGood

LEMMA ProvideGood == ASSUME XclipState, NEW who \in Others, Provide(who) PROVE XclipState'
<1>1. /\ XclipTypes /\ Known(xevents, selection_request, pasting) /\ xevents \in Seq(Events)
      /\ asked \in Seq(Wishes)
    BY DEF XclipState, XclipTypes
<1>2. PICK i \in DOMAIN asked : \E content \in Contents(asked[i]) \cup {"none"} :
          /\ asked' = SubSeq(asked, 1, i - 1) \o SubSeq(asked, i + 1, Len(asked))
          /\ Reply(AskedFor(asked[i].selection, asked[i].target, "self"), xevents, content)
          /\ crossed' = (crossed \/ content = "INCR")
          /\ UNCHANGED <<probeVars, rdp_clipboard_request_format, selection_request, owner>>
    BY DEF Provide
<1>3. PICK content :
          /\ asked' = CutOut(asked, i)
          /\ Reply(AskedFor(asked[i].selection, asked[i].target, "self"), xevents, content)
          /\ crossed' = (crossed \/ content = "INCR")
          /\ UNCHANGED <<probeVars, rdp_clipboard_request_format, selection_request, owner>>
    BY <1>2 DEF CutOut
<1>4. i \in 1..Len(asked) /\ asked[i] \in Wishes
    BY <1>1, LenProperties, ElementOfSeq
<1> DEFINE wish == asked[i]
           request == AskedFor(wish.selection, wish.target, "self")
<1>5. /\ request \in Asking /\ request.who = "self"
      /\ request.selection = wish.selection /\ request.target = wish.target
    BY <1>4 DEF Wishes, AskedFor, Asking
<1>6. /\ stampProperties' \subseteq Selections /\ property' \in {property, content}
      /\ xevents' \in Seq(Events) /\ Elements(xevents) \subseteq Elements(xevents')
      /\ pasting' = pasting /\ Grows(xevents, xevents')
      /\ \E e \in Elements(xevents') : AnswerIs(e, wish.selection, wish.target)
    BY <1>1, <1>3, <1>5, ReplyIs
<1>7. asked' \in Seq(Wishes) /\ Elements(asked) \subseteq {wish} \cup Elements(asked')
    BY <1>1, <1>3, <1>4, ElementsCut
<1> HIDE DEF wish, request
<1>8. XclipTypes'
    BY <1>1, <1>3, <1>6, <1>7 DEF XclipTypes, Flags, probeVars
<1>9. Known(xevents', selection_request', pasting')
    BY <1>1, <1>3, <1>6 DEF Grows
<1>10. ASSUME NEW s \in Selections, NEW t \in Targets, Coming(asked, xevents, selection_request, s, t)
       PROVE  Coming(asked', xevents', selection_request, s, t)
  <2>1. CASE WishIs(wish, s, t)
    BY <1>6, <2>1 DEF Coming, WishIs
  <2>2. CASE ~WishIs(wish, s, t)
    BY <1>6, <1>7, <1>10, <2>2 DEF Coming
  <2> QED
    BY <2>1, <2>2
<1>11. ~crossed' => ~crossed /\ (property' = "INCR" => property = "INCR")
    BY <1>3, <1>6
<1>12. Moves
    BY <1>3, <1>10, <1>11 DEF Moves, probeVars
<1> QED
    BY <1>8, <1>9, <1>12, MovesGood

LEMMA SendPieceGood == ASSUME XclipState, SendPiece PROVE XclipState'
<1>1. /\ XclipTypes /\ Known(xevents, selection_request, pasting) /\ xevents \in Seq(Events)
    BY DEF XclipState, XclipTypes
<1>2. /\ property' \in {"data", "empty"}
      /\ UNCHANGED <<probeVars, rdp_clipboard_request_format, selection_request, owner,
                     asked, stampProperties, crossed, pasting>>
    BY DEF SendPiece
<1>3. Grows(xevents, xevents')
  <2>1. xevents' = Append(xevents, WindowNotify) \/ xevents' = xevents
    BY DEF SendPiece
  <2> QED
    BY <1>1, <2>1, GrowsAppend, GrowsNone, OwnEvents
<1>4. XclipTypes' /\ Known(xevents', selection_request', pasting')
    BY <1>1, <1>2, <1>3 DEF XclipTypes, Flags, probeVars, Grows
<1>5. \A s \in Selections, t \in Targets :
          Coming(asked, xevents, selection_request, s, t) => Coming(asked, xevents', selection_request, s, t)
    BY <1>3, ComingMore DEF Grows
<1>6. Moves
    BY <1>2, <1>5 DEF Moves, probeVars
<1> QED
    BY <1>4, <1>6, MovesGood

LEMMA PasteGood == ASSUME XclipState, NEW p \in Pasters, Paste(p) PROVE XclipState'
<1> DEFINE e == AskedFor("CLIPBOARD", "TEXT", p)
<1>1. /\ XclipTypes /\ Known(xevents, selection_request, pasting) /\ xevents \in Seq(Events)
    BY DEF XclipState, XclipTypes
<1>2. /\ p \notin pasting /\ pasting' = pasting \cup {p} /\ xevents' = Append(xevents, e)
      /\ UNCHANGED <<probeVars, rdp_clipboard_request_format, selection_request, owner,
                     asked, properties, crossed>>
    BY DEF Paste, outside
<1>3. e \in Events /\ AsksFor(e, p) /\ \A q \in Pasters \ {p} : ~AsksFor(e, q)
  <2>1. e \in Asking
    BY DEF AskedFor, Asking, Selections, Targets
  <2> QED
    BY <2>1 DEF Events, AskedFor, AsksFor
<1> HIDE DEF e
<1>4. xevents' \in Seq(Events) /\ Elements(xevents) \subseteq Elements(xevents')
    BY <1>1, <1>2, <1>3, ElementsAppend
<1>5. XclipTypes'
    BY <1>1, <1>2, <1>4 DEF XclipTypes, Flags, probeVars, properties
<1>6. Known(xevents', selection_request', pasting')
  <2> SUFFICES ASSUME NEW q \in Pasters
               PROVE  KnownIs(Append(xevents, e), Holds(selection_request, q), pasting \cup {p}, q)
    BY <1>2 DEF Known
  <2>1. KnownIs(xevents, Holds(selection_request, q), pasting, q)
    BY <1>1 DEF Known
  <2>2. CASE q = p
    <3>1. Never(xevents, p) /\ ~Holds(selection_request, p)
      BY <1>2, <2>1, <2>2 DEF KnownIs
    <3>2. Once(Append(xevents, e), p)
      BY <1>1, <1>3, <3>1, OnceAppend
    <3> QED
      BY <2>2, <3>1, <3>2 DEF KnownIs
  <2>3. CASE q # p
    <3>1. ~AsksFor(e, q)
      BY <1>3, <2>3
    <3>2. Never(<<e>>, q) /\ <<e>> \in Seq(Events) /\ Append(xevents, e) = xevents \o <<e>>
      <4>1. Elements(<<e>>) = {e}
        BY ElementsFew
      <4>2. Never(<<e>>, q)
        BY <3>1, <4>1, NeverIs
      <4> QED
        BY <1>1, <1>3, <4>2, AppendIsConcat
    <3>3. /\ Once(xevents, q) => Once(Append(xevents, e), q)
          /\ Never(xevents, q) => Never(Append(xevents, e), q)
      BY <1>1, <3>2, OnceBehind
    <3> QED
      BY <2>1, <2>3, <3>3 DEF KnownIs
  <2> QED
    BY <2>2, <2>3
<1>7. \A s \in Selections, t \in Targets :
          Coming(asked, xevents, selection_request, s, t) => Coming(asked, xevents', selection_request, s, t)
    BY <1>4, ComingMore
<1>8. Moves
    BY <1>2, <1>7 DEF Moves, probeVars, properties
<1> QED
    BY <1>5, <1>6, <1>8, MovesGood

-----------------------------------------------------------------------------
LEMMA XclipInitGood == XclipInit => XclipState
<1> SUFFICES ASSUME XclipInit PROVE XclipState
    OBVIOUS
<1>1. XclipTypes
  <2>1. Flags /\ pasting \subseteq Pasters
    BY DEF XclipInit, Flags
  <2>2. owner \in [Selections -> Others \cup {"self", Nobody}]
    BY DEF XclipInit, Others
  <2>3. asked = <<>> /\ xevents = <<>> /\ selection_request = <<>>
    BY DEF XclipInit
  <2>4. <<>> \in Seq(Wishes) /\ <<>> \in Seq(Events) /\ <<>> \in Seq(Asking) /\ Len(<<>>) <= 1
    OBVIOUS
  <2> QED
    BY <2>1, <2>2, <2>3, <2>4 DEF XclipTypes
<1>2. Known(xevents, selection_request, pasting)
  <2>1. xevents = <<>> /\ selection_request = <<>> /\ pasting = {}
    BY DEF XclipInit
  <2>2. \A p : Never(<<>>, p) /\ ~Holds(<<>>, p)
    BY DEF Never, Holds
  <2> QED
    BY <2>1, <2>2 DEF Known, KnownIs
<1> QED
    BY <1>1, <1>2 DEF XclipInit, XclipState

LEMMA XclipStep == XclipState /\ [XclipNext]_xclipVars => XclipState'
<1> SUFFICES ASSUME XclipState, [XclipNext]_xclipVars PROVE XclipState'
    OBVIOUS
<1>1. CASE UNCHANGED xclipVars
    BY <1>1 DEF XclipState, XclipTypes, Flags, Awaited, xclipVars, probeVars, properties, outside
<1>2. CASE ThisProgram
    BY <1>2, NotifyGood, SelectionRequestGood, ClearGood, PieceGood, RootGood DEF ThisProgram
<1>3. CASE \/ ui_clip_request_data \/ ui_clip_handle_data
           \/ ui_clip_format_announce \/ ui_clip_sync \/ SendPiece
    BY <1>3, RequestDataGood, HandleDataGood, AnnounceGood, SyncGood, SendPieceGood
<1>4. CASE \/ \E selection \in Selections : TakeOver("app", {selection})
           \/ TakeOver("fellow", Selections)
           \/ \E who \in Others : TakeOver(Nobody, {selection \in Selections : owner[selection] = who})
  <2>1. "app" \in Others /\ "fellow" \in Others
    BY DEF Others
  <2> QED
    BY <1>4, <2>1, TakeOverGood
<1>5. CASE \E who \in Others : Provide(who)
    BY <1>5, ProvideGood
<1>6. CASE \E p \in Pasters : Paste(p)
    BY <1>6, PasteGood
<1> QED
    BY <1>1, <1>2, <1>3, <1>4, <1>5, <1>6 DEF XclipNext

LEMMA PlacesIs ==
    ASSUME XclipState, NEW p \in Pasters
    PROVE  Cardinality(Places(p)) = IF p \in pasting THEN 1 ELSE 0
<1>1. /\ KnownIs(xevents, Holds(selection_request, p), pasting, p)
      /\ xevents \in Seq(Events) /\ selection_request \in Seq(Asking) /\ Len(selection_request) <= 1
    BY DEF XclipState, XclipTypes, Known
<1> DEFINE asking == {i \in DOMAIN xevents : xevents[i].type = "SelectionRequest" /\ xevents[i].who = p}
           held == {0 : i \in {j \in DOMAIN selection_request : selection_request[j].who = p}}
<1>2. Places(p) = asking \cup held
    BY DEF Places
<1>3. Never(xevents, p) => asking = {}
    BY <1>1, LenProperties DEF Never, AsksFor
<1>4. Once(xevents, p) => \E i : asking = {i}
  <2>1. ASSUME Once(xevents, p) PROVE \E i : asking = {i}
    <3>1. PICK i \in 1..Len(xevents) :
              AsksFor(xevents[i], p) /\ \A j \in 1..Len(xevents) : AsksFor(xevents[j], p) => j = i
      BY <2>1 DEF Once
    <3>2. DOMAIN xevents = 1..Len(xevents)
      BY <1>1, LenProperties
    <3>3. asking = {i}
      BY <3>1, <3>2 DEF AsksFor
    <3> QED
      BY <3>3
  <2> QED
    BY <2>1
<1>5. /\ Holds(selection_request, p) => held = {0}
      /\ ~Holds(selection_request, p) => held = {}
  <2>1. CASE selection_request = <<>>
    <3>1. DOMAIN selection_request = {}
      BY <2>1
    <3> QED
      BY <2>1, <3>1 DEF Holds
  <2>2. CASE selection_request # <<>>
    <3>1. Len(selection_request) = 1
      <4>1. Len(selection_request) \in Nat /\ Len(selection_request) <= 1
        BY <1>1, LenProperties
      <4>2. Len(selection_request) # 0
        BY <1>1, <2>2, EmptySeq
      <4> QED
        BY <4>1, <4>2
    <3>2. DOMAIN selection_request = {1}
      BY <1>1, <3>1, LenProperties
    <3> QED
      BY <2>2, <3>2 DEF Holds
  <2> QED
    BY <2>1, <2>2
<1> HIDE DEF asking, held
<1>6. IF p \in pasting THEN \E i : Places(p) = {i} ELSE Places(p) = {}
    BY <1>1, <1>2, <1>3, <1>4, <1>5 DEF KnownIs
<1> QED
    BY <1>6, FS_EmptySet, FS_Singleton

LEMMA SureIsOnItsWay ==
    ASSUME XclipTypes, Sure(asked, xevents, selection_request, stamps)
    PROVE  OnItsWay
<1>1. xevents \in Seq(Events) /\ selection_request \in Seq(Asking) /\ Len(selection_request) <= 1
      /\ asked \in Seq(Wishes) /\ stamps \subseteq Selections
    BY DEF XclipTypes, Flags
<1>2. PICK s, t : Coming(asked, xevents, selection_request, s, t)
    BY <1>1 DEF Sure
<1>3. CASE \E w \in Elements(asked) : WishIs(w, s, t)
  <2>1. asked # <<>>
    BY <1>3, ElementsFew
  <2> QED
    BY <2>1 DEF OnItsWay
<1>4. CASE \E e \in Elements(xevents) : AnswerIs(e, s, t)
  <2>1. PICK i \in 1..Len(xevents) : AnswerIs(xevents[i], s, t)
    BY <1>4 DEF Elements
  <2>2. i \in DOMAIN xevents
    BY <1>1, LenProperties
  <2> QED
    BY <2>1, <2>2 DEF AnswerIs, OnItsWay
<1>5. CASE \E e \in Elements(selection_request) : AnswerIs(e, s, t)
  <2>1. PICK i \in 1..Len(selection_request) : AnswerIs(selection_request[i], s, t)
    BY <1>5 DEF Elements
  <2>2. i = 1 /\ selection_request # <<>> /\ selection_request[1] \in Asking
    BY <1>1, <2>1, LenProperties, ElementOfSeq
  <2>3. selection_request[1].who = "self"
    BY <2>1, <2>2 DEF AnswerIs, Asking
  <2> QED
    BY <2>2, <2>3 DEF OnItsWay
<1> QED
    BY <1>2, <1>3, <1>4, <1>5 DEF Coming

LEMMA XclipStateEnough == XclipState => XclipTypeOK /\ NobodyForgotten
<1> SUFFICES ASSUME XclipState PROVE XclipTypeOK /\ NobodyForgotten
    OBVIOUS
<1>1. XclipTypes /\ (rdp_clipboard_request_format /\ ~crossed => Awaited)
    BY DEF XclipState
<1>2. rdp_clipboard_request_format => crossed \/ OnItsWay
    BY <1>1, SureIsOnItsWay DEF Awaited
<1>3. XclipTypeOK
    BY <1>1 DEF XclipTypes, Flags, XclipTypeOK
<1> QED
    BY <1>2, <1>3, PlacesIs DEF NobodyForgotten

\* Nobody who asks for the clipboard is forgotten, however many programs paste,
\* whoever takes the selections, and however often: a program that pastes is
\* known in one place until it is answered, and while the server waits for data
\* an answer is on its way, unless a probe or a long text crossed its request.
THEOREM ClipboardRemembers == XclipSpec => [](XclipTypeOK /\ NobodyForgotten)
<1>1. XclipInit => XclipState
    BY XclipInitGood
<1>2. XclipState /\ [XclipNext]_xclipVars => XclipState'
    BY XclipStep
<1>3. XclipState => XclipTypeOK /\ NobodyForgotten
    BY XclipStateEnough
<1> QED
    BY <1>1, <1>2, <1>3, PTL DEF XclipSpec
=============================================================================
