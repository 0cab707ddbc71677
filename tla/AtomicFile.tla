----------------------------- MODULE AtomicFile ------------------------------
(***************************************************************************)
(* write_file_atomically: a temporary file is written, synced and renamed  *)
(* over the old one, and the directory is synced.  A file is the sequence  *)
(* of the regions write_vector_file hands over: header, vectors, ids,      *)
(* norms, liveness bytes; only the header, when there is nothing to store. *)
(* The page cache survives the process; what was synced, a power cut.      *)
(***************************************************************************)
EXTENDS Naturals, Sequences

CONSTANT Regions    \* how many regions a file has that is not empty

VARIABLES
    tmp,        \* the temporary file of the write under way
    tmpSynced,  \* whether its bytes are on the disk
    path,       \* the file a reader finds; <<>> when absent
    hard,       \* the files a reader may find after a power cut
    unseen      \* history: the last sync of the directory failed unseen

fileVars == <<tmp, tmpSynced, path, hard, unseen>>

\* A region names the contents it was made of; Lost, a region that never
\* reached the disk.
Region(contents, n) == [of |-> contents, part |-> n]

Lost == [of |-> {}, part |-> 0]

\* Contents are a set; an empty region is not written.
RegionCount(contents) == IF contents = {} THEN 1 ELSE Regions

FileOf(contents) == [n \in 1 .. RegionCount(contents) |-> Region(contents, n)]

Whole(file) == file = <<>> \/ file = FileOf(file[1].of)

\* parse_vector_file_header: the header's own checksum, then the size of the
\* file.  The checksum of the vectors is left to check --deep.
Readable(file) ==
    /\ file # <<>>
    /\ file[1].part = 1
    /\ Len(file) = RegionCount(file[1].of)

FileInit ==
    /\ tmp = <<>>
    /\ tmpSynced = FALSE
    /\ path = <<>>
    /\ hard = {<<>>}
    /\ unseen = FALSE

\* O_TRUNC.
OpenTmp ==
    /\ tmp' = <<>>
    /\ tmpSynced' = FALSE
    /\ UNCHANGED <<path, hard, unseen>>

\* write_all of one region.
WriteChunk(contents) ==
    /\ tmp' = Append(tmp, Region(contents, Len(tmp) + 1))
    /\ UNCHANGED <<tmpSynced, path, hard, unseen>>

\* Mutant: the bytes are left to the system.
SkipFsync == UNCHANGED fileVars

Fsync ==
    /\ tmpSynced' = TRUE
    /\ UNCHANGED <<tmp, path, hard, unseen>>

\* What a power cut may make of a file: nothing when its bytes are synced,
\* else any of its regions may be lost.
Survivors(file, synced) ==
    IF synced THEN {file}
    ELSE {[n \in DOMAIN file |-> IF n \in kept THEN file[n] ELSE Lost] :
              kept \in SUBSET DOMAIN file}

\* The name moves at once in memory, and on the disk at some later time.
Rename ==
    /\ path' = tmp
    /\ hard' = hard \cup Survivors(tmp, tmpSynced)
    /\ tmp' = <<>>
    /\ UNCHANGED <<tmpSynced, unseen>>

\* The write is given up.  What it leaves of the temporary file nobody reads,
\* and the next write starts from an empty one.
Abandon ==
    /\ tmp' = <<>>
    /\ tmpSynced' = FALSE
    /\ UNCHANGED <<path, hard, unseen>>

\* Mutant: the directory is not synced.
SkipSyncDirectory == UNCHANGED fileVars

\* The rename is on the disk.
SyncDirectory ==
    /\ hard' = Survivors(path, tmpSynced)
    /\ unseen' = FALSE
    /\ tmpSynced' = FALSE
    /\ UNCHANGED <<tmp, path>>

\* fsync_directory ignores what fsync returns: the rename is where it was.
SyncDirectoryUnseen ==
    /\ unseen' = TRUE
    /\ tmpSynced' = FALSE
    /\ UNCHANGED <<tmp, path, hard>>

LosePower ==
    /\ path' \in hard
    /\ hard' = {path'}
    /\ tmp' = <<>>
    /\ tmpSynced' = FALSE
    /\ unseen' = FALSE
=============================================================================
