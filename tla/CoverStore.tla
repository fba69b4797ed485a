----------------------------- MODULE CoverStore -----------------------------
(***************************************************************************)
(* The store of cover images.  An upload writes image files and then adds  *)
(* a row; the archiver moves the files into a tar file and makes the row   *)
(* point there; a reader looks up the row and then reads the file, with    *)
(* nothing that keeps the archiver from moving it in between.  The four    *)
(* sizes of an image are one file here, and so are their tar files.        *)
(*                                                                         *)
(* Code: openlibrary/coverstore, archive.py, coverlib.py, db.py, code.py.  *)
(***************************************************************************)
EXTENDS Naturals, Sequences, FiniteSets

CONSTANTS
    Covers,   \* identifiers of the covers, in the order of their rows
    Readers,
    NoCover,
    NoRow, Local,   \* of a place: there is no row; a path on the local disk
    Missing, Short, \* of a reply: no bytes; fewer than the row says
    MaxTar,   \* bound: how many members a tar file gets
    MaxKills  \* bound: how often the archiver is killed

ASSUME CoverStoreAssumption ==
    /\ Covers \subseteq Nat /\ IsFiniteSet(Covers)
    /\ {NoCover, NoRow, Local, Missing, Short} \cap Nat = {} /\ NoRow # Local
    /\ MaxTar \in Nat /\ MaxKills \in Nat

VARIABLES
    covFiles,   \* covers whose files are on the local disk
    covRow,     \* [Covers -> Place], the filename columns of the rows
    (* the tar file *)
    tar,        \* covers of its members, in order
    synced,     \* how many members are on the disk, not in a buffer
    torn,       \* does the file end without its end marker?
    (* the archiver *)
    archiver,   \* where archive() is
    todo,       \* rows it has selected and not handled
    current,    \* the cover it handles
    (* readers *)
    asked,      \* [Readers -> Covers \cup {NoCover}]
    found,      \* the place a reader got from the row
    reply,      \* what it read there
    (* history *)
    kills,
    lost        \* archived covers whose tar member a kill has cut off

tarVars == <<tar, synced, torn>>
archiverVars == <<archiver, todo, current>>
readerVars == <<asked, found, reply>>
covHistory == <<kills, lost>>
covVars == <<covFiles, covRow, tarVars, archiverVars, readerVars, covHistory>>

----------------------------------------------------------------------------
(* The columns filename, filename_s, ...: a local path, or the tar file with *)
(* the offset of a member (the column archived is true exactly then).        *)

Place == {NoRow, Local} \cup (1..MaxTar)

\* The rows, the tar file, the archiver and the readers have their types, and
\* the archiver works on a cover exactly while it is under way with one.
CovTypeOK ==
    /\ covFiles \subseteq Covers
    /\ covRow \in [Covers -> Place]
    /\ tar \in Seq(Covers) /\ synced \in 0..Len(tar) /\ torn \in BOOLEAN
    /\ archiver \in {"idle", "pick", "update", "remove", "close"}
    /\ todo \subseteq Covers /\ current \in Covers \cup {NoCover}
    /\ archiver \in {"update", "remove"} => current # NoCover
    /\ asked \in [Readers -> Covers \cup {NoCover}]
    /\ found \in [Readers -> Place]
    /\ reply \in [Readers -> Covers \cup {NoCover, Missing, Short}]
    /\ kills \in 0..MaxKills /\ lost \subseteq Covers

----------------------------------------------------------------------------
(* Uploads.  A deletion changes no row: it sets the column deleted to        *)
(* "true AND last_modified = now", which is false.                           *)

\* write_image: the files are written first.  An upload that ends here leaves
\* them behind: its cleanup removes names outside the directory of images.
WriteImage(c) ==
    /\ c \notin covFiles /\ covRow[c] = NoRow
    /\ covFiles' = covFiles \cup {c}
    /\ UNCHANGED <<covRow, tarVars, archiverVars, readerVars, covHistory>>

\* db.new: identifiers are given in the order of the rows.
NewCover(c) ==
    /\ c \in covFiles /\ covRow[c] = NoRow
    /\ \A b \in Covers : b < c => covRow[b] # NoRow
    /\ covRow' = [covRow EXCEPT ![c] = Local]
    /\ UNCHANGED <<covFiles, tarVars, archiverVars, readerVars, covHistory>>

\* upload, upload2.
Upload(c) == WriteImage(c) \/ NewCover(c)

----------------------------------------------------------------------------
(* archive() *)

\* The rows that are not archived are selected once, at the start.
StartArchive ==
    /\ archiver = "idle"
    /\ todo' = {c \in Covers : covRow[c] = Local}
    /\ archiver' = "pick"
    /\ UNCHANGED <<covFiles, covRow, tarVars, current, readerVars, covHistory>>

FirstOf(S) == CHOOSE c \in S : \A b \in S : c <= b

\* The next row; one whose files are not all there is skipped.
PickCover ==
    /\ archiver = "pick"
    /\ IF todo = {}
       THEN archiver' = "close" /\ UNCHANGED <<todo, current, tarVars>>
       ELSE LET c == FirstOf(todo) IN
            /\ todo' = todo \ {c}
            /\ IF c \notin covFiles
               THEN UNCHANGED <<archiver, current, tarVars>>
               ELSE /\ Len(tar) < MaxTar
                    /\ current' = c
                    /\ \/ \* add_file
                          /\ ~torn
                          /\ tar' = Append(tar, c)
                          /\ archiver' = "update"
                          /\ UNCHANGED <<synced, torn>>
                       \/ \* the disk is full, and a part of a member is written
                          /\ ~torn
                          /\ torn' \in BOOLEAN
                          /\ archiver' = "close"
                          /\ UNCHANGED <<tar, synced>>
                       \/ \* TarFile(path, 'a') raises ReadError
                          /\ torn
                          /\ archiver' = "close"
                          /\ UNCHANGED tarVars
    /\ UNCHANGED <<covFiles, covRow, readerVars, covHistory>>

\* add_file returns where the member it has added begins.
MemberOffset == Len(tar)

\* Mutant: the files are removed before the row is updated.
UpdateRow_RemovesFirst ==
    /\ archiver = "update"
    /\ covFiles' = covFiles \ {current}
    /\ \/ covRow' = [covRow EXCEPT ![current] = MemberOffset] /\ archiver' = "remove"
       \/ archiver' = "close" /\ UNCHANGED covRow
    /\ UNCHANGED <<tarVars, todo, current, readerVars, covHistory>>

\* The row is made to point into the tar file; or the database raises.
UpdateRow ==
    /\ archiver = "update"
    /\ \/ covRow' = [covRow EXCEPT ![current] = MemberOffset] /\ archiver' = "remove"
       \/ archiver' = "close" /\ UNCHANGED covRow
    /\ UNCHANGED <<covFiles, tarVars, todo, current, readerVars, covHistory>>

\* os.remove; or it raises and the files stay for ever, as the row is archived.
RemoveFiles ==
    /\ archiver = "remove"
    /\ \/ covFiles' = covFiles \ {current} /\ archiver' = "pick"
       \/ archiver' = "close" /\ UNCHANGED covFiles
    /\ UNCHANGED <<covRow, tarVars, todo, current, readerVars, covHistory>>

\* Mutant: what is in the buffers of the tar file is dropped.
CloseTar_NoFlush ==
    /\ archiver = "close"
    /\ archiver' = "idle"
    /\ tar' = SubSeq(tar, 1, synced)
    /\ todo' = {} /\ current' = NoCover
    /\ UNCHANGED <<covFiles, covRow, synced, torn, readerVars, covHistory>>

\* finally: tar_manager.close().
CloseTar ==
    /\ archiver = "close"
    /\ archiver' = "idle"
    /\ synced' = Len(tar)
    /\ todo' = {} /\ current' = NoCover
    /\ UNCHANGED <<covFiles, covRow, tar, torn, readerVars, covHistory>>

\* The buffer of the tar file is full: members reach the disk before it is closed.
FlushTar ==
    /\ archiver # "idle" /\ synced < Len(tar)
    /\ synced' = synced + 1
    /\ UNCHANGED <<covFiles, covRow, tar, torn, archiverVars, readerVars, covHistory>>

\* The process is killed: members in the buffer are gone, and whether the file
\* ends with an end marker depends on what was flushed.
KillArchiver ==
    /\ archiver # "idle" /\ kills < MaxKills
    /\ kills' = kills + 1
    /\ tar' = SubSeq(tar, 1, synced)
    /\ torn' \in (IF torn \/ current = NoCover THEN {torn} ELSE BOOLEAN)
    /\ lost' = lost \cup {c \in Covers : covRow[c] \in (synced + 1)..MaxTar}
    /\ archiver' = "idle" /\ todo' = {} /\ current' = NoCover
    /\ UNCHANGED <<covFiles, covRow, synced, readerVars>>

Archive == StartArchive \/ PickCover \/ UpdateRow \/ RemoveFiles \/ CloseTar

----------------------------------------------------------------------------
(* cover.GET *)

\* get_details: the row is read.
LookUp(r, c) ==
    /\ asked[r] = NoCover
    /\ covRow[c] # NoRow
    /\ asked' = [asked EXCEPT ![r] = c]
    /\ found' = [found EXCEPT ![r] = covRow[c]]
    /\ reply' = [reply EXCEPT ![r] = NoCover]
    /\ UNCHANGED <<covFiles, covRow, tarVars, archiverVars, covHistory>>

\* read_file: of a member beyond the end of the file there are too few bytes,
\* and no error.
Content(c, place) ==
    CASE place = Local -> IF c \in covFiles THEN c ELSE Missing
      [] place \in Nat -> IF place <= synced THEN tar[place] ELSE Short

\* read_image; IOError is answered with "not found".
ReadImage(r) ==
    /\ asked[r] # NoCover
    /\ reply' = [reply EXCEPT ![r] = Content(asked[r], found[r])]
    /\ asked' = [asked EXCEPT ![r] = NoCover]
    /\ UNCHANGED <<covFiles, covRow, tarVars, archiverVars, found, covHistory>>

----------------------------------------------------------------------------
CovInit ==
    /\ covFiles = {}
    /\ covRow = [c \in Covers |-> NoRow]
    /\ tar = <<>> /\ synced = 0 /\ torn = FALSE
    /\ archiver = "idle" /\ todo = {} /\ current = NoCover
    /\ asked = [r \in Readers |-> NoCover]
    /\ found = [r \in Readers |-> NoRow]
    /\ reply = [r \in Readers |-> NoCover]
    /\ kills = 0 /\ lost = {}

CovNext ==
    \/ \E c \in Covers : Upload(c)
    \/ Archive \/ FlushTar \/ KillArchiver
    \/ \E r \in Readers : ReadImage(r) \/ \E c \in Covers : LookUp(r, c)

CovSpec == CovInit /\ [][CovNext]_covVars

----------------------------------------------------------------------------
(* Properties *)

\* archive(): whatever raises, and wherever the archiver stops, an uploaded
\* image is where its row says, unless a kill cut off its tar member.
CoversAreKept ==
    \A c \in Covers \ lost :
        /\ covRow[c] = Local => c \in covFiles
        /\ covRow[c] \in Nat => covRow[c] <= Len(tar) /\ tar[covRow[c]] = c

\* read_image: a cover never shows the image of another one, except that of a
\* cover whose tar member was cut off and replaced.  "Not found" is answered only
\* when the files were moved since the row was read, so that a reader who asks
\* again finds them; too few bytes are served only while the archiver has not
\* closed the tar file.
ReadersGetTheirCover ==
    [][\A r \in Readers :
          ReadImage(r) /\ asked[r] \notin lost =>
              \/ reply'[r] = asked[r]
              \/ reply'[r] = Missing /\ covRow[asked[r]] \notin {found[r], NoRow}
              \/ reply'[r] = Short /\ archiver # "idle"]_covVars

=============================================================================
