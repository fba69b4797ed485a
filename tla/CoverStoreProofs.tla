-------------------------- MODULE CoverStoreProofs --------------------------
(***************************************************************************)
(* Theorems about CoverStore, for any covers, readers and bounds: type     *)
(* correctness, that no upload is lost by the archiver, and what readers   *)
(* are served while it moves the files.                                    *)
(***************************************************************************)
EXTENDS CoverStore, WellFoundedInduction, TLAPS

----------------------------------------------------------------------------
(* The inductive invariant *)

\* Where the archiver is says what it has done to the cover it handles: the rows
\* it has still to handle are local, and after add_file the last member is the
\* current cover's.
ArchiverAgrees ==
    /\ Len(tar) <= MaxTar
    /\ \A c \in todo : covRow[c] = Local
    /\ archiver = "update" => /\ current \notin todo /\ covRow[current] = Local
                              /\ Len(tar) > 0 /\ tar[Len(tar)] = current
    /\ archiver = "remove" => covRow[current] \in Nat
    /\ archiver = "idle" => synced = Len(tar)

\* A reader found a row, and a row that points into the tar file is final.
ReadersAgree ==
    \A r \in Readers : asked[r] # NoCover =>
        /\ covRow[asked[r]] # NoRow /\ found[r] # NoRow
        /\ found[r] \in Nat => covRow[asked[r]] = found[r]

CovInv == CovTypeOK /\ CoversAreKept /\ ArchiverAgrees /\ ReadersAgree

LEMMA CovInitInv == CovInit => CovInv
<1> SUFFICES ASSUME CovInit PROVE CovInv
  OBVIOUS
<1>1. /\ covFiles \subseteq Covers /\ covRow \in [Covers -> Place]
      /\ asked \in [Readers -> Covers \cup {NoCover}] /\ found \in [Readers -> Place]
      /\ reply \in [Readers -> Covers \cup {NoCover, Missing, Short}]
  BY DEF CovInit, Place
<1>2. /\ tar \in Seq(Covers) /\ synced \in 0..Len(tar) /\ Len(tar) = 0 /\ synced = 0
      /\ kills \in 0..MaxKills
  BY CoverStoreAssumption DEF CovInit
<1>3. torn = FALSE /\ archiver = "idle" /\ todo = {} /\ current = NoCover /\ lost = {}
  BY DEF CovInit
<1>4. CovTypeOK
  BY <1>1, <1>2, <1>3 DEF CovTypeOK
<1>5. CoversAreKept /\ ReadersAgree
  BY CoverStoreAssumption DEF CovInit, CoversAreKept, ReadersAgree
<1>6. ArchiverAgrees
  BY <1>2, <1>3, CoverStoreAssumption DEF ArchiverAgrees
<1>7. QED
  BY <1>4, <1>5, <1>6 DEF CovInv

----------------------------------------------------------------------------
(* The order of the rows *)

\* The archiver handles one of the rows it has to.
LEMMA FirstIsOne == ASSUME NEW S, S \subseteq Nat, S # {} PROVE FirstOf(S) \in S
<1>1. PICK x \in S : \A y \in S : ~(<<y, x>> \in OpToRel(<, Nat))
  BY NatLessThanWellFounded, WFMin
<1>2. ASSUME NEW y \in S PROVE x <= y
  <2>1. <<y, x>> \in Nat \X Nat /\ <<y, x>>[1] = y /\ <<y, x>>[2] = x
    OBVIOUS
  <2>2. y < x => <<y, x>> \in OpToRel(<, Nat)
    BY <2>1 DEF OpToRel
  <2>3. ~(y < x)
    BY <1>1, <2>2
  <2>4. x \in Nat /\ y \in Nat
    OBVIOUS
  <2>5. QED
    BY <2>3, <2>4
<1>3. QED
  BY <1>2 DEF FirstOf

----------------------------------------------------------------------------
(* Uploads and readers *)

LEMMA UploadInv == ASSUME CovInv, NEW c \in Covers, Upload(c) PROVE CovInv'
<1> USE DEF CovInv
<1>1. CASE WriteImage(c)
  <2>1. CovTypeOK'
    BY <1>1 DEF CovTypeOK, WriteImage, tarVars, archiverVars, readerVars, covHistory
  <2>2. CoversAreKept' /\ ArchiverAgrees' /\ ReadersAgree'
    BY <1>1 DEF CoversAreKept, ArchiverAgrees, ReadersAgree, WriteImage,
                tarVars, archiverVars, readerVars, covHistory
  <2>3. QED
    BY <2>1, <2>2
<1>2. CASE NewCover(c)
  <2> USE <1>2 DEF NewCover, tarVars, archiverVars, readerVars, covHistory
  <2>1. covRow' = [covRow EXCEPT ![c] = Local] /\ covRow[c] = NoRow /\ c \in covFiles
    OBVIOUS
  <2>2. covRow \in [Covers -> Place] /\ current \in Covers \cup {NoCover}
        /\ todo \subseteq Covers /\ asked \in [Readers -> Covers \cup {NoCover}]
    BY DEF CovTypeOK
  <2>3. CovTypeOK'
    BY <2>1, <2>2 DEF CovTypeOK, Place
  <2>4. CoversAreKept'
    BY <2>1, <2>2, CoverStoreAssumption DEF CoversAreKept
  <2>5. ArchiverAgrees'
    <3>1. archiver = "remove" => current # c /\ covRow'[current] = covRow[current]
      BY <2>1, <2>2, CoverStoreAssumption DEF ArchiverAgrees, CovTypeOK
    <3>2. archiver = "update" => current # c /\ covRow'[current] = covRow[current]
      BY <2>1, <2>2, CoverStoreAssumption DEF ArchiverAgrees, CovTypeOK
    <3>3. \A b \in todo : covRow'[b] = Local
      BY <2>1, <2>2 DEF ArchiverAgrees
    <3>4. QED
      BY <3>1, <3>2, <3>3 DEF ArchiverAgrees
  <2>6. ReadersAgree'
    BY <2>1, <2>2, CoverStoreAssumption DEF ReadersAgree
  <2>7. QED
    BY <2>3, <2>4, <2>5, <2>6
<1>3. QED
  BY <1>1, <1>2 DEF Upload

\* What a reader finds is a cover, or a reply that says why not.
LEMMA ContentType ==
    ASSUME CovInv, NEW r \in Readers, asked[r] # NoCover
    PROVE  Content(asked[r], found[r]) \in Covers \cup {Missing, Short}
<1>1. /\ found[r] \in {Local} \cup (1..MaxTar) /\ asked[r] \in Covers
      /\ tar \in Seq(Covers) /\ synced \in 0..Len(tar)
  BY DEF CovInv, CovTypeOK, ReadersAgree, Place
<1>2. CASE found[r] = Local
  BY <1>1, <1>2, CoverStoreAssumption DEF Content
<1>3. CASE found[r] \in 1..MaxTar
  <2>1. found[r] # Local /\ found[r] \in Nat
    BY <1>3, CoverStoreAssumption
  <2>2. Content(asked[r], found[r]) = IF found[r] <= synced THEN tar[found[r]] ELSE Short
    BY <2>1 DEF Content
  <2>3. found[r] <= synced => tar[found[r]] \in Covers
    BY <1>1, <1>3
  <2>4. QED
    BY <2>2, <2>3
<1>4. QED
  BY <1>1, <1>2, <1>3

LEMMA ReaderInv ==
    ASSUME CovInv, NEW r \in Readers, ReadImage(r) \/ \E c \in Covers : LookUp(r, c)
    PROVE  CovInv'
<1> USE DEF CovInv
<1>1. CASE ReadImage(r)
  <2>1. Content(asked[r], found[r]) \in Covers \cup {Missing, Short}
    BY <1>1, ContentType DEF ReadImage
  <2>2. CovTypeOK'
    BY <1>1, <2>1 DEF CovTypeOK, ReadImage, tarVars, archiverVars, covHistory
  <2>3. CoversAreKept' /\ ArchiverAgrees' /\ ReadersAgree'
    BY <1>1 DEF CovTypeOK, CoversAreKept, ArchiverAgrees, ReadersAgree, ReadImage,
                tarVars, archiverVars, covHistory
  <2>4. QED
    BY <2>2, <2>3
<1>2. ASSUME NEW c \in Covers, LookUp(r, c) PROVE CovInv'
  <2>1. CovTypeOK'
    BY <1>2 DEF CovTypeOK, LookUp, tarVars, archiverVars, covHistory
  <2>2. CoversAreKept' /\ ArchiverAgrees' /\ ReadersAgree'
    BY <1>2 DEF CovTypeOK, CoversAreKept, ArchiverAgrees, ReadersAgree, LookUp,
                tarVars, archiverVars, covHistory
  <2>3. QED
    BY <2>1, <2>2
<1>3. QED
  BY <1>1, <1>2

----------------------------------------------------------------------------
(* The archiver *)

LEMMA StartArchiveInv == ASSUME CovInv, StartArchive PROVE CovInv'
<1> USE DEF CovInv
<1>1. CovTypeOK'
  BY DEF CovTypeOK, StartArchive, tarVars, readerVars, covHistory
<1>2. CoversAreKept' /\ ArchiverAgrees' /\ ReadersAgree'
  BY DEF CoversAreKept, ArchiverAgrees, ReadersAgree, StartArchive, tarVars, readerVars, covHistory
<1>3. QED
  BY <1>1, <1>2

\* A member is added behind those that rows point to.
LEMMA AddMember ==
    ASSUME CovInv, NEW c \in Covers, Len(tar) < MaxTar, tar' = Append(tar, c)
    PROVE  /\ tar' \in Seq(Covers) /\ Len(tar') = Len(tar) + 1 /\ tar'[Len(tar')] = c
           /\ synced \in 0..Len(tar') /\ Len(tar') <= MaxTar
           /\ \A i \in 1..Len(tar) : tar'[i] = tar[i]
<1>1. tar \in Seq(Covers) /\ synced \in 0..Len(tar) /\ Len(tar) \in Nat
  BY DEF CovInv, CovTypeOK
<1>2. QED
  BY <1>1, CoverStoreAssumption

LEMMA PickCoverInv == ASSUME CovInv, PickCover PROVE CovInv'
<1> USE DEF CovInv
<1>1. UNCHANGED <<covFiles, covRow, asked, found, reply, kills, lost>> /\ archiver = "pick"
  BY DEF PickCover, readerVars, covHistory
<1>2. ReadersAgree'
  BY <1>1 DEF ReadersAgree
<1>3. CASE /\ UNCHANGED <<tar, synced>> /\ torn' \in BOOLEAN /\ archiver' \in {"pick", "close"}
           /\ todo' \subseteq todo /\ current' \in Covers \cup {NoCover}
  <2>1. CovTypeOK'
    BY <1>1, <1>3 DEF CovTypeOK
  <2>2. CoversAreKept' /\ ArchiverAgrees'
    BY <1>1, <1>3 DEF CoversAreKept, ArchiverAgrees
  <2>3. QED
    BY <1>2, <2>1, <2>2
<1>4. ASSUME NEW c \in todo, todo' = todo \ {c}, Len(tar) < MaxTar, current' = c,
             tar' = Append(tar, c), archiver' = "update", UNCHANGED <<synced, torn>>
      PROVE  CovInv'
  <2>1. c \in Covers /\ covRow[c] = Local /\ Covers \subseteq Nat
    BY <1>4, CoverStoreAssumption DEF CovTypeOK, ArchiverAgrees
  <2>2. /\ tar' \in Seq(Covers) /\ Len(tar') = Len(tar) + 1 /\ tar'[Len(tar')] = c
        /\ synced' \in 0..Len(tar') /\ Len(tar') <= MaxTar
        /\ \A i \in 1..Len(tar) : tar'[i] = tar[i]
    BY <1>4, <2>1, AddMember
  <2>3. Len(tar) \in Nat /\ c # NoCover
    <3>1. tar \in Seq(Covers)
      BY DEF CovTypeOK
    <3>2. c \in Nat /\ NoCover \notin Nat
      BY <2>1, CoverStoreAssumption
    <3>3. QED
      BY <3>1, <3>2
  <2>4. CovTypeOK'
    BY <1>1, <1>4, <2>1, <2>2, <2>3 DEF CovTypeOK
  <2>5. CoversAreKept'
    <3>1. ASSUME NEW b \in Covers \ lost, covRow[b] \in Nat
          PROVE  covRow[b] <= Len(tar') /\ tar'[covRow[b]] = b
      <4>1. covRow[b] \in 1..Len(tar) /\ tar[covRow[b]] = b
        BY <3>1, <2>3, CoverStoreAssumption DEF CoversAreKept, CovTypeOK, Place
      <4>2. QED
        BY <4>1, <2>2, <2>3
    <3>2. QED
      BY <1>1, <3>1 DEF CoversAreKept
  <2>6. ArchiverAgrees'
    BY <1>1, <1>4, <2>1, <2>2, <2>3 DEF ArchiverAgrees
  <2>7. QED
    BY <1>2, <2>4, <2>5, <2>6
<1>5. CASE todo = {}
  BY <1>3, <1>5 DEF PickCover, CovTypeOK, tarVars
<1>6. CASE todo # {}
  <2> DEFINE c == FirstOf(todo)
  <2>1. c \in todo
    BY <1>6, FirstIsOne, CoverStoreAssumption DEF CovTypeOK
  <2>2. CASE c \notin covFiles
    <3>1. UNCHANGED <<tar, synced, torn, archiver, current>> /\ todo' = todo \ {c}
      BY <1>6, <2>2 DEF PickCover, tarVars
    <3>2. QED
      BY <1>1, <1>3, <3>1 DEF CovTypeOK
  <2>3. CASE c \in covFiles
    <3>1. /\ todo' = todo \ {c} /\ Len(tar) < MaxTar /\ current' = c
          /\ \/ tar' = Append(tar, c) /\ archiver' = "update" /\ UNCHANGED <<synced, torn>>
             \/ torn' \in BOOLEAN /\ archiver' = "close" /\ UNCHANGED <<tar, synced>>
             \/ archiver' = "close" /\ UNCHANGED <<tar, synced, torn>>
      BY <1>6, <2>3 DEF PickCover, tarVars
    <3>2. CASE tar' = Append(tar, c) /\ archiver' = "update" /\ UNCHANGED <<synced, torn>>
      BY <1>4, <2>1, <3>1, <3>2
    <3>3. CASE torn' \in BOOLEAN /\ archiver' = "close" /\ UNCHANGED <<tar, synced>>
      BY <1>3, <2>1, <3>1, <3>3 DEF CovTypeOK
    <3>4. CASE archiver' = "close" /\ UNCHANGED <<tar, synced, torn>>
      BY <1>3, <2>1, <3>1, <3>4 DEF CovTypeOK
    <3>5. QED
      BY <3>1, <3>2, <3>3, <3>4
  <2>4. QED
    BY <2>2, <2>3
<1>7. QED
  BY <1>5, <1>6

LEMMA UpdateRowInv == ASSUME CovInv, UpdateRow PROVE CovInv'
<1> USE DEF CovInv
<1>1. UNCHANGED <<covFiles, tar, synced, torn, todo, current, asked, found, reply, kills, lost>>
      /\ archiver = "update"
  BY DEF UpdateRow, tarVars, readerVars, covHistory
<1>2. CASE archiver' = "close" /\ UNCHANGED covRow
  <2>1. CovTypeOK'
    BY <1>1, <1>2 DEF CovTypeOK
  <2>2. CoversAreKept' /\ ArchiverAgrees' /\ ReadersAgree'
    BY <1>1, <1>2 DEF CoversAreKept, ArchiverAgrees, ReadersAgree
  <2>3. QED
    BY <2>1, <2>2
<1>3. CASE covRow' = [covRow EXCEPT ![current] = Len(tar)] /\ archiver' = "remove"
  <2>1. /\ current \in Covers /\ covRow[current] = Local /\ current \notin todo
        /\ Len(tar) > 0 /\ tar[Len(tar)] = current
    BY <1>1 DEF CovTypeOK, ArchiverAgrees
  <2>2. Len(tar) \in Nat /\ Len(tar) <= MaxTar /\ Len(tar) \in 1..MaxTar
    <3>1. tar \in Seq(Covers) /\ Len(tar) <= MaxTar
      BY DEF CovTypeOK, ArchiverAgrees
    <3>2. QED
      BY <2>1, <3>1, CoverStoreAssumption
  <2>3. covRow \in [Covers -> Place] /\ covRow' \in [Covers -> Place]
        /\ covRow'[current] = Len(tar) /\ \A b \in Covers \ {current} : covRow'[b] = covRow[b]
    BY <1>3, <2>1, <2>2 DEF CovTypeOK, Place
  <2>4. Len(tar) # Local /\ Len(tar) # NoRow /\ Local \notin Nat
    BY <2>2, CoverStoreAssumption
  <2>5. CovTypeOK'
    BY <1>1, <1>3, <2>1, <2>3 DEF CovTypeOK
  <2>6. CoversAreKept'
    BY <1>1, <2>1, <2>2, <2>3, <2>4 DEF CoversAreKept
  <2>7. ArchiverAgrees'
    <3>1. \A b \in todo : b \in Covers \ {current} /\ covRow[b] = Local
      BY <2>1 DEF CovTypeOK, ArchiverAgrees
    <3>2. QED
      BY <1>1, <1>3, <2>2, <2>3, <3>1 DEF ArchiverAgrees
  <2>8. ReadersAgree'
    <3>1. ASSUME NEW r \in Readers, asked[r] # NoCover
          PROVE  /\ covRow'[asked[r]] # NoRow /\ found[r] # NoRow
                 /\ found[r] \in Nat => covRow'[asked[r]] = found[r]
      <4>1. asked[r] \in Covers
        BY <3>1 DEF CovTypeOK
      <4>2. /\ covRow[asked[r]] # NoRow /\ found[r] # NoRow
            /\ found[r] \in Nat => covRow[asked[r]] = found[r]
        BY <3>1 DEF ReadersAgree
      <4>3. QED
        BY <2>1, <2>3, <2>4, <4>1, <4>2
    <3>2. QED
      BY <1>1, <3>1 DEF ReadersAgree
  <2>9. QED
    BY <2>5, <2>6, <2>7, <2>8
<1>4. QED
  BY <1>2, <1>3 DEF UpdateRow, MemberOffset

LEMMA RemoveFilesInv == ASSUME CovInv, RemoveFiles PROVE CovInv'
<1> USE DEF CovInv
<1>1. /\ UNCHANGED <<covRow, tar, synced, torn, todo, current, asked, found, reply, kills, lost>>
      /\ archiver' \in {"pick", "close"}
      /\ covFiles' = covFiles \/ covFiles' = covFiles \ {current}
      /\ covRow[current] \in Nat
  BY DEF RemoveFiles, ArchiverAgrees, tarVars, readerVars, covHistory
<1>2. CovTypeOK'
  BY <1>1 DEF CovTypeOK
<1>3. CoversAreKept' /\ ArchiverAgrees' /\ ReadersAgree'
  BY <1>1, CoverStoreAssumption DEF CoversAreKept, ArchiverAgrees, ReadersAgree
<1>4. QED
  BY <1>2, <1>3

\* Closing and flushing the tar file only move members out of the buffer.
LEMMA SyncTarInv == ASSUME CovInv, CloseTar \/ FlushTar PROVE CovInv'
<1> USE DEF CovInv
<1>1. tar \in Seq(Covers) /\ synced \in 0..Len(tar) /\ Len(tar) \in Nat
  BY DEF CovTypeOK
<1>2. CASE CloseTar
  <2>1. synced' = Len(tar) /\ synced' \in 0..Len(tar)
    BY <1>1, <1>2 DEF CloseTar
  <2>2. CovTypeOK'
    BY <1>2, <2>1 DEF CovTypeOK, CloseTar, readerVars, covHistory
  <2>3. CoversAreKept' /\ ArchiverAgrees' /\ ReadersAgree'
    BY <1>2 DEF CoversAreKept, ArchiverAgrees, ReadersAgree, CloseTar, readerVars, covHistory
  <2>4. QED
    BY <2>2, <2>3
<1>3. CASE FlushTar
  <2>1. synced' \in 0..Len(tar)
    BY <1>1, <1>3 DEF FlushTar
  <2>2. CovTypeOK'
    BY <1>3, <2>1 DEF CovTypeOK, FlushTar, archiverVars, readerVars, covHistory
  <2>3. CoversAreKept' /\ ArchiverAgrees' /\ ReadersAgree'
    BY <1>3 DEF CoversAreKept, ArchiverAgrees, ReadersAgree, FlushTar, archiverVars,
                readerVars, covHistory
  <2>4. QED
    BY <2>2, <2>3
<1>4. QED
  BY <1>2, <1>3

\* Members that are on the disk survive a kill, and the others count as lost.
LEMMA KillArchiverInv == ASSUME CovInv, KillArchiver PROVE CovInv'
<1> USE DEF CovInv
<1>1. /\ UNCHANGED <<covFiles, covRow, synced, asked, found, reply>>
      /\ archiver' = "idle" /\ todo' = {} /\ current' = NoCover
      /\ tar' = SubSeq(tar, 1, synced) /\ kills < MaxKills /\ kills' = kills + 1
      /\ lost' = lost \cup {c \in Covers : covRow[c] \in (synced + 1)..MaxTar}
  BY DEF KillArchiver, readerVars
<1>2. /\ tar \in Seq(Covers) /\ synced \in 0..Len(tar) /\ Len(tar) \in Nat /\ Len(tar) <= MaxTar
      /\ synced \in Nat /\ covRow \in [Covers -> Place] /\ kills \in 0..MaxKills
  <2>1. tar \in Seq(Covers) /\ synced \in 0..Len(tar) /\ Len(tar) <= MaxTar
        /\ covRow \in [Covers -> Place] /\ kills \in 0..MaxKills
    BY DEF CovTypeOK, ArchiverAgrees
  <2>2. QED
    BY <2>1
<1>3. /\ tar' \in Seq(Covers) /\ Len(tar') = synced
      /\ \A i \in 1..synced : tar'[i] = tar[i]
  BY <1>1, <1>2
<1>4. torn' \in BOOLEAN
  BY DEF KillArchiver, CovTypeOK
<1>5. CovTypeOK'
  <2>1. synced' \in 0..Len(tar') /\ kills' \in 0..MaxKills
    BY <1>1, <1>2, <1>3, CoverStoreAssumption
  <2>2. QED
    BY <1>1, <1>3, <1>4, <2>1 DEF CovTypeOK
<1>6. CoversAreKept'
  <2>1. ASSUME NEW c \in Covers, c \notin lost'
        PROVE  /\ covRow[c] = Local => c \in covFiles
               /\ covRow[c] \in Nat => covRow[c] <= Len(tar') /\ tar'[covRow[c]] = c
    <3>1. c \notin lost /\ covRow[c] \notin (synced + 1)..MaxTar
      BY <1>1, <2>1
    <3>2. /\ covRow[c] = Local => c \in covFiles
          /\ covRow[c] \in Nat => tar[covRow[c]] = c
      BY <3>1 DEF CoversAreKept
    <3>3. ASSUME covRow[c] \in Nat PROVE covRow[c] \in 1..synced
      <4>1. covRow[c] \in 1..MaxTar
        BY <1>2, <3>3, CoverStoreAssumption DEF Place
      <4>2. QED
        BY <1>2, <3>1, <4>1, CoverStoreAssumption
    <3>4. QED
      BY <1>2, <1>3, <3>2, <3>3
  <2>2. QED
    BY <1>1, <2>1 DEF CoversAreKept
<1>7. ArchiverAgrees' /\ ReadersAgree'
  <2>1. ReadersAgree'
    BY <1>1 DEF ReadersAgree
  <2>2. Len(tar') <= MaxTar /\ synced' = Len(tar') /\ todo' = {} /\ archiver' = "idle"
    <3>1. Len(tar') = synced /\ synced' = synced /\ synced <= MaxTar
      BY <1>1, <1>2, <1>3, CoverStoreAssumption
    <3>2. QED
      BY <1>1, <3>1
  <2>3. ArchiverAgrees'
    BY <2>2 DEF ArchiverAgrees
  <2>4. QED
    BY <2>1, <2>3
<1>8. QED
  BY <1>5, <1>6, <1>7

----------------------------------------------------------------------------
LEMMA CovNextInv == CovInv /\ [CovNext]_covVars => CovInv'
<1> SUFFICES ASSUME CovInv, [CovNext]_covVars PROVE CovInv'
  OBVIOUS
<1>1. CASE UNCHANGED covVars
  <2>1. UNCHANGED <<covFiles, covRow, tar, synced, torn, archiver, todo, current, asked, found,
                    reply, kills, lost>>
    BY <1>1 DEF covVars, tarVars, archiverVars, readerVars, covHistory
  <2>2. QED
    BY <2>1 DEF CovInv, CovTypeOK, CoversAreKept, ArchiverAgrees, ReadersAgree
<1>2. CASE CovNext
  BY <1>2, UploadInv, ReaderInv, StartArchiveInv, PickCoverInv, UpdateRowInv, RemoveFilesInv,
     SyncTarInv, KillArchiverInv DEF CovNext, Archive
<1>3. QED
  BY <1>1, <1>2

LEMMA CovInvariant == CovSpec => []CovInv
<1>1. QED
  BY CovInitInv, CovNextInv, PTL DEF CovSpec

\* Files, rows, the tar file, the archiver and the readers keep their types
\* (archive.py, coverlib.py).
THEOREM CovTypeCorrect == CovSpec => []CovTypeOK
<1>1. CovInv => CovTypeOK
  BY DEF CovInv
<1>2. QED
  BY <1>1, CovInvariant, PTL

\* An uploaded image is where its row says for any number of covers, whatever
\* raises and wherever the archiver is killed, but for members that a kill cut off
\* (archive of archive.py).
THEOREM CoversKept == CovSpec => []CoversAreKept
<1>1. CovInv => CoversAreKept
  BY DEF CovInv
<1>2. QED
  BY <1>1, CovInvariant, PTL

\* What any reader is served while the archiver moves the files: the image, "not
\* found" after a move, or too few bytes before the tar file is closed (read_image
\* of coverlib.py).
THEOREM ReadersServed == CovSpec => ReadersGetTheirCover
<1> DEFINE Served == \A r \in Readers :
          ReadImage(r) /\ asked[r] \notin lost =>
              \/ reply'[r] = asked[r]
              \/ reply'[r] = Missing /\ covRow[asked[r]] \notin {found[r], NoRow}
              \/ reply'[r] = Short /\ archiver # "idle"
<1>1. ASSUME CovInv, NEW r \in Readers, ReadImage(r), asked[r] \notin lost
      PROVE  \/ reply'[r] = asked[r]
             \/ reply'[r] = Missing /\ covRow[asked[r]] \notin {found[r], NoRow}
             \/ reply'[r] = Short /\ archiver # "idle"
  <2> DEFINE c == asked[r]
  <2>1. /\ c \in Covers \ lost /\ c # NoCover /\ reply'[r] = Content(c, found[r])
        /\ found[r] \in {NoRow, Local} \cup (1..MaxTar)
        /\ covRow[c] \in {NoRow, Local} \cup (1..MaxTar)
    BY <1>1 DEF CovInv, CovTypeOK, ReadImage, Place
  <2>2. /\ covRow[c] # NoRow /\ found[r] # NoRow
        /\ found[r] \in Nat => covRow[c] = found[r]
    BY <1>1, <2>1 DEF CovInv, ReadersAgree
  <2>3. /\ covRow[c] = Local => c \in covFiles
        /\ covRow[c] \in Nat => covRow[c] <= Len(tar) /\ tar[covRow[c]] = c
    BY <1>1, <2>1 DEF CovInv, CoversAreKept
  <2>4. CASE found[r] = Local
    <3>1. reply'[r] = IF c \in covFiles THEN c ELSE Missing
      BY <2>1, <2>4, CoverStoreAssumption DEF Content
    <3>2. c \notin covFiles => covRow[c] \notin {found[r], NoRow}
      BY <2>2, <2>3, <2>4
    <3>3. QED
      BY <3>1, <3>2
  <2>5. CASE found[r] \in 1..MaxTar
    <3>1. found[r] \in Nat /\ found[r] # Local /\ covRow[c] = found[r]
      BY <2>2, <2>5, CoverStoreAssumption
    <3>2. reply'[r] = IF found[r] <= synced THEN tar[found[r]] ELSE Short
      BY <2>1, <3>1 DEF Content
    <3>3. archiver = "idle" => synced = Len(tar)
      BY <1>1 DEF CovInv, ArchiverAgrees
    <3>4. QED
      BY <2>3, <3>1, <3>2, <3>3
  <2>6. QED
    BY <2>1, <2>2, <2>4, <2>5
<1>2. CovInv /\ [CovNext]_covVars => [Served]_covVars
  BY <1>1
<1>3. QED
  BY <1>2, CovInvariant, PTL DEF CovSpec, ReadersGetTheirCover

=============================================================================
