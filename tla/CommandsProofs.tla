--------------------------- MODULE CommandsProofs ----------------------------
(***************************************************************************)
(* What the command line program promises, for any arguments, files of     *)
(* vectors and ids, for files of any number of regions, and whatever is    *)
(* killed, fails or loses its power, however often:                        *)
(*  - the variables have their types, and readers find whole files;        *)
(*  - what a writing command that returned 0 has done survives, once the   *)
(*    directory's entry is on the disk and unless its sync failed unseen;  *)
(*  - the exit code tells what became of the database, for every line that *)
(*    the program does not take for something else without a word.         *)
(***************************************************************************)
EXTENDS Commands, FiniteSetTheorems, WellFoundedInduction, TLAPS

\* What a database may hold: each id once.
Contents ==
    {c \in SUBSET Entry :
        IsFiniteSet(c) /\ \A a, b \in c : a.id = b.id => a = b}

\* The files that a reader may find: none, or a whole one.
Kept == {<<>>} \cup {FileOf(c) : c \in Contents}

FilesOK == path \in Kept /\ hard \subseteq Kept

\* The first regions of a file.
Part(c, k) == [n \in 1 .. k |-> Region(c, n)]

\* How far a flush has come: the temporary file is a part of the file of the
\* memory, then it is that file and on the disk; then it has the name, and in
\* the end nothing else has.
FlushOK ==
    /\ pc = "chunks" => \E k \in 0 .. RegionCount(mem) - 1 : tmp = Part(mem, k)
    /\ pc \in {"fsync", "rename"} => tmp = FileOf(mem)
    /\ pc \in {"rename", "syncdir"} => tmpSynced
    /\ pc \in {"syncdir", "nextid"} => path = FileOf(mem)
    /\ pc = "nextid" /\ ~unseen => hard = {path}

\* Before the process has opened its database.
Starting == {"open", "create", "generate", "configure"}

Flushes == {"tmp", "chunks", "fsync", "rename", "syncdir", "nextid"}

\* Where the process is, and what it has seen of its arguments by then.
ProcessOK ==
    /\ pc \in {"shell", "run", "leave"} \cup Starting \cup Flushes
    /\ pc \in {"run", "leave"} \cup Flushes => dir = "ready"
    /\ pc \in {"shell"} \cup Starting =>
           mem = {} /\ ~dirty /\ row = 0 /\ exit = 0 /\ ~unwinding
    /\ pc # "shell" =>
           /\ cmd.name \in DOMAIN Reads
           /\ \E line \in CommandLines : cmd.argv = line.argv /\ cmd.args = Parse(line.argv)
    /\ pc = "shell" => cmd = NoCommand
    /\ pc = "generate" => cmd.name = "generate"
    /\ pc \in {"create", "configure"} => cmd.name = "create"
    /\ pc \in {"open", "run"} => cmd.name \notin {"create", "generate"}
    /\ pc = "run" => Refused = 0 /\ exit = 0 /\ ~unwinding
    /\ row \in Nat
    /\ pc = "run" /\ row > 0 =>
           cmd.name = "import" /\ InputRefusal(cmd.args) = 0
    /\ unwinding => pc \in Flushes \/ (pc = "leave" /\ ~dirty)

\* The inductive invariant of types and files.
IInv ==
    /\ TypeOK
    /\ mem \in Contents
    /\ FilesOK
    /\ FlushOK
    /\ ProcessOK

-----------------------------------------------------------------------------
(***************************************************************************)
(* Files                                                                   *)
(***************************************************************************)
LEMMA NoContents == {} \in Contents
  BY FS_EmptySet DEF Contents

\* The regions of a file are those of its contents.
LEMMA RegionsOf ==
    ASSUME NEW c
    PROVE  /\ RegionCount(c) \in Nat \ {0}
           /\ FileOf(c) = Part(c, RegionCount(c))
           /\ FileOf(c) # <<>>
           /\ Len(FileOf(c)) = RegionCount(c)
           /\ FileOf(c)[1].of = c
           /\ FileOf(c)[1].part = 1
  <1>1. RegionCount(c) \in Nat \ {0}
    BY CommandsAssumption DEF RegionCount
  <1>2. FileOf(c)[1] = Region(c, 1)
    BY <1>1 DEF FileOf
  <1> QED
    BY <1>1, <1>2 DEF FileOf, Part, Region

\* A file that is kept is whole, and has the contents it was made of.
LEMMA KeptHolds ==
    ASSUME NEW file \in Kept
    PROVE  /\ Whole(file)
           /\ Held(file) \in Contents
           /\ file # <<>> => /\ Readable(file)
                            /\ file = FileOf(Held(file))
                            /\ file[1].of = Held(file)
           /\ file = <<>> => Held(file) = {}
  <1>1. CASE file = <<>>
    BY <1>1, NoContents DEF Whole, Held, Readable
  <1>2. CASE file # <<>>
    <2>1. PICK c \in Contents : file = FileOf(c)
      BY <1>2 DEF Kept
    <2>2. /\ file[1].of = c
          /\ file[1].part = 1
      BY <2>1, RegionsOf
    <2>3. Readable(file)
      BY <1>2, <2>1, <2>2, RegionsOf DEF Readable
    <2> QED
      BY <1>2, <2>1, <2>2, <2>3 DEF Held, Whole
  <1> QED
    BY <1>1, <1>2

\* and the other way round.
LEMMA HeldOf ==
    ASSUME NEW c \in Contents
    PROVE  FileOf(c) \in Kept /\ Held(FileOf(c)) = c
  <1>1. FileOf(c) \in Kept
    BY DEF Kept
  <1>2. FileOf(c)[1].of = c
    BY RegionsOf
  <1> QED
    BY <1>1, <1>2, KeptHolds, RegionsOf

\* One more region.
LEMMA PartFacts ==
    ASSUME NEW c, NEW k \in Nat
    PROVE  /\ Len(Part(c, k)) = k
           /\ Append(Part(c, k), Region(c, k + 1)) = Part(c, k + 1)
           /\ Part(c, 0) = <<>>
  BY DEF Part

\* A 64-bit successor.
LEMMA NextIsId ==
    ASSUME NEW id \in Ids, NEW n \in Ids
    PROVE  NextAfter(id, n) \in Ids
  BY CommandsAssumption DEF NextAfter, Ids

\* What a process leaves when it is over.
LEMMA IdleKeeps ==
    ASSUME Idle, path' \in Kept, hard' \subseteq Kept,
           {tmpSynced', unseen', anchored'} \subseteq BOOLEAN, dir' \in {"absent", "bare", "ready"},
           saved' \in Ids, savedHard' \in [dir : {"bare", "ready"}, next : Ids]
    PROVE  IInv'
  <1>1. 0 \in Ids
    BY CommandsAssumption DEF Ids
  <1>2. TypeOK'
    <2>1. next' \in Ids /\ exit' \in 0 .. 3 /\ mem' = {} /\ dirty' = FALSE /\ unwinding' = FALSE
      BY <1>1 DEF Idle
    <2> QED
      BY <2>1 DEF TypeOK
  <1>3. mem' \in Contents
    BY NoContents DEF Idle
  <1>4. FilesOK' /\ FlushOK'
    BY DEF FilesOK, FlushOK, Idle
  <1>5. ProcessOK'
    BY DEF ProcessOK, Idle, Starting, Flushes
  <1> QED
    BY <1>2, <1>3, <1>4, <1>5 DEF IInv

(***************************************************************************)
(* Arguments and files of vectors                                          *)
(***************************************************************************)
LEMMA ElementsOf ==
    ASSUME NEW S, NEW s \in Seq(S)
    PROVE  \A i \in 1 .. Len(s) : s[i] \in S
  OBVIOUS

\* The rows a file gives are not more than its lines.
LEMMA RowsWithinLines ==
    ASSUME NEW f \in DOMAIN Files
    PROVE  /\ Len(CsvRows(Files[f].lines)) \in Nat
           /\ DOMAIN CsvRows(Files[f].lines) = 1 .. Len(CsvRows(Files[f].lines))
           /\ Len(CsvRows(Files[f].lines)) <= Len(Files[f].lines)
           /\ CsvRows(Files[f].lines) # <<>> => Len(CsvRows(Files[f].lines)) > 0
  <1> DEFINE lines == Files[f].lines
             rows == {i \in DOMAIN lines : lines[i].vec # 0}
  <1>1. lines \in Seq([id : Ids, vec : Nat])
    BY CommandsAssumption
  <1>2. Len(lines) \in Nat /\ DOMAIN lines = 1 .. Len(lines)
    BY <1>1
  <1>3. IsFiniteSet(1 .. Len(lines)) /\ Cardinality(1 .. Len(lines)) = Len(lines)
    BY <1>2, FS_Interval
  <1>4. IsFiniteSet(rows) /\ Cardinality(rows) <= Len(lines)
    BY <1>2, <1>3, FS_Subset
  <1>5. Cardinality(rows) \in Nat
    BY <1>4, FS_CardinalityType
  <1>6. CsvRows(lines) = [n \in 1 .. Cardinality(rows) |-> lines[Nth(rows, n)]]
    BY DEF CsvRows
  <1> HIDE DEF rows
  <1>7. Len(CsvRows(lines)) = Cardinality(rows) /\ DOMAIN CsvRows(lines) = 1 .. Cardinality(rows)
    BY <1>5, <1>6
  <1>8. Cardinality(rows) = 0 => CsvRows(lines) = <<>>
    BY <1>6
  <1> QED
    BY <1>2, <1>4, <1>5, <1>7, <1>8

\* What a batch holds, once its file has been accepted.
LEMMA BatchOf ==
    ASSUME NEW args, InputRefusal(args) = 0
    PROVE  /\ Input(args) \in DOMAIN Files
           /\ Len(Batch(args).vecs) \in Nat
           /\ Batch(args).ids # <<>> =>
                  \A i \in 1 .. Len(Batch(args).vecs) : Batch(args).ids[i] \in Ids
  <1>1. Input(args) \in DOMAIN Files
    BY DEF InputRefusal, CsvRefusal, MatrixRefusal
  <1> DEFINE file == Files[Input(args)]
  <1>2. file.lines \in Seq([id : Ids, vec : Nat]) /\ file.ids \in BOOLEAN
    BY <1>1, CommandsAssumption
  <1>3. /\ Len(file.lines) \in Nat
        /\ DOMAIN file.lines = 1 .. Len(file.lines)
        /\ \A i \in 1 .. Len(file.lines) : file.lines[i].id \in Ids
    <2> DEFINE lines == file.lines
    <2>1. lines \in Seq([id : Ids, vec : Nat])
      BY <1>2
    <2> HIDE DEF lines
    <2>2. \A i \in 1 .. Len(lines) : lines[i] \in [id : Ids, vec : Nat]
      BY <2>1, ElementsOf
    <2>3. Len(lines) \in Nat /\ DOMAIN lines = 1 .. Len(lines)
      BY <2>1
    <2>4. \A i \in 1 .. Len(lines) : lines[i].id \in Ids
      BY <2>2
    <2> QED
      BY <2>3, <2>4 DEF lines
  <1>4. /\ Len(CsvRows(file.lines)) \in Nat
        /\ DOMAIN CsvRows(file.lines) = 1 .. Len(CsvRows(file.lines))
        /\ Len(CsvRows(file.lines)) <= Len(file.lines)
    BY <1>1, RowsWithinLines
  <1>5. Batch(args) = IF Has(args, "csv") THEN CsvBatch(file) ELSE MatrixBatch(file)
    BY DEF Batch
  <1> HIDE DEF file
  <1>6. MatrixBatch(file).ids # <<>> =>
            \A i \in 1 .. Len(file.lines) : MatrixBatch(file).ids[i] \in Ids
    BY <1>3, <1>2 DEF MatrixBatch
  <1>7. Len(MatrixBatch(file).vecs) = Len(file.lines)
    BY <1>3 DEF MatrixBatch
  <1>8. CsvBatch(file).ids = MatrixBatch(file).ids
    BY DEF CsvBatch
  <1>9. Len(CsvBatch(file).vecs) = Len(CsvRows(file.lines))
    BY <1>4 DEF CsvBatch
  <1> QED
    <2>1. CASE Has(args, "csv")
      BY <2>1, <1>1, <1>3, <1>4, <1>5, <1>6, <1>8, <1>9
    <2>2. CASE ~Has(args, "csv")
      BY <2>2, <1>1, <1>3, <1>5, <1>6, <1>7
    <2> QED
      BY <2>1, <2>2

\* An id that is typed.
LEMMA TypedId ==
    ASSUME NEW line \in CommandLines, NEW name \in DOMAIN Reads,
           NEW o \in {"id", "start-id"}, o \in Reads[name],
           Refusal(name, Parse(line.argv)) = 0, NEW fallback \in Ids
    PROVE  Number(Parse(line.argv), o, fallback) \in Ids
  <1> DEFINE v == Value(Parse(line.argv), o)
  <1>1. ~OptionsRefused(name, Parse(line.argv))
    BY DEF Refusal
  <1>2. o \in Reads[name] \cap Numbers
    BY DEF Numbers
  <1>3. v = Empty \/ v.is = "number"
    BY <1>1, <1>2 DEF OptionsRefused
  <1>4. v.is = "number" => v.n \in Ids
    BY CommandsAssumption
  <1> QED
    BY <1>3, <1>4 DEF Number

LEMMA ArgumentsOf ==
    ASSUME NEW line \in CommandLines
    PROVE  /\ Len(line.argv) \in Nat /\ DOMAIN line.argv = 1 .. Len(line.argv)
           /\ \A i \in DOMAIN line.argv : line.argv[i] \in Token
  <1>1. line.argv \in Seq(Token)
    BY CommandsAssumption
  <1> QED
    BY <1>1, ElementsOf

\* The arguments are finite, and so are the positional ones.
LEMMA PositionalsCounted ==
    ASSUME NEW line \in CommandLines
    PROVE  Len(Parse(line.argv).positionals) \in Nat
  <1> DEFINE argv  == line.argv
             words == {i \in DOMAIN argv : argv[i].form = "word" /\ ~Consumed(argv)[i]}
  <1>1. IsFiniteSet(DOMAIN argv)
    <2>1. Len(argv) \in Nat /\ DOMAIN argv = 1 .. Len(argv)
      BY ArgumentsOf
    <2>2. IsFiniteSet(1 .. Len(argv))
      BY <2>1, FS_Interval
    <2> QED
      BY <2>1, <2>2
  <1>2. Cardinality(words) \in Nat
    BY <1>1, FS_Subset, FS_CardinalityType
  <1>3. Parse(argv).positionals = [n \in 1 .. Cardinality(words) |-> argv[Nth(words, n)].value]
    BY DEF Parse
  <1> HIDE DEF words
  <1> QED
    BY <1>2, <1>3

LEMMA ZeroIsId == 0 \in Ids
  BY CommandsAssumption DEF Ids

\* The id a row is inserted under.
LEMMA RowIdIsId ==
    ASSUME NEW line \in CommandLines, Refusal("import", Parse(line.argv)) = 0,
           InputRefusal(Parse(line.argv)) = 0,
           NEW i \in 1 .. Len(Batch(Parse(line.argv)).vecs), NEW n \in Ids
    PROVE  RowId(Parse(line.argv), i, n) \in Ids
  <1> DEFINE args == Parse(line.argv)
  <1>1. Number(args, "start-id", 0) \in Ids
    BY TypedId, ZeroIsId DEF Reads
  <1>2. Len(Batch(args).vecs) \in Nat
    BY BatchOf
  <1>3. (Number(args, "start-id", 0) + i - 1) % (MaxId + 1) \in Ids
    BY <1>1, <1>2, CommandsAssumption DEF Ids
  <1>4. Batch(args).ids # <<>> => Batch(args).ids[i] \in Ids
    BY BatchOf
  <1> QED
    BY <1>3, <1>4 DEF RowId

\* Ids stay unique.
LEMMA EntryAdded ==
    ASSUME NEW c \in Contents, NEW id \in Ids, NEW v \in Vecs, id \notin IdsOf(c)
    PROVE  c \cup {[id |-> id, vec |-> v]} \in Contents
  <1>1. IsFiniteSet(c \cup {[id |-> id, vec |-> v]})
    BY FS_AddElement DEF Contents
  <1>2. c \cup {[id |-> id, vec |-> v]} \in SUBSET Entry
    BY DEF Contents, Entry
  <1>3. \A e \in c : e.id # id
    BY DEF IdsOf
  <1> QED
    BY <1>1, <1>2, <1>3 DEF Contents

LEMMA EntryRemoved ==
    ASSUME NEW c \in Contents, NEW id
    PROVE  {e \in c : e.id # id} \in Contents
  BY FS_Subset DEF Contents

LEMMA RefusalCodes ==
    ASSUME NEW name, NEW args
    PROVE  Refusal(name, args) \in 0 .. 2 /\ InputRefusal(args) \in 0 .. 2
  BY DEF Refusal, InputRefusal, CsvRefusal, MatrixRefusal

-----------------------------------------------------------------------------
(***************************************************************************)
(* Types and files, action by action                                       *)
(***************************************************************************)
\* A step that changes nothing but what the shell remembers.
LEMMA SameKeeps ==
    ASSUME IInv, UNCHANGED <<fileVars, dir, kept, pc, cmd, exit, memory, unwinding>>
    PROVE  IInv'
  BY DEF IInv, TypeOK, Contents, Entry, FilesOK, FlushOK, ProcessOK, fileVars, kept, memory,
         Refused, Kept, Part

LEMMA DispatchKeeps ==
    ASSUME IInv, NEW line \in CommandLines, Dispatch(line)
    PROVE  IInv'
  <1>1. /\ pc = "shell"
        /\ UNCHANGED <<tmp, tmpSynced, unseen, path, hard, dir, anchored, saved, savedHard, exit,
                       mem, next, dirty, row, unwinding>>
        /\ pc' \in {"create", "generate", "open"}
    BY DEF Dispatch, fileVars, kept, memory
  <1>2. cmd'.name = line.name /\ cmd'.argv = line.argv /\ cmd'.args = Parse(line.argv)
    BY DEF Dispatch
  <1>3. line.name \in DOMAIN Reads
    BY DEF Dispatch, Answered
  <1>4. /\ pc' = "generate" => line.name = "generate"
        /\ pc' = "create" => line.name = "create"
        /\ pc' = "open" => line.name \notin {"create", "generate"}
    BY DEF Dispatch
  <1>5. TypeOK' /\ mem' \in Contents
    BY <1>1 DEF IInv, TypeOK
  <1>6. FilesOK' /\ FlushOK'
    BY <1>1 DEF IInv, FilesOK, FlushOK
  <1>7. ProcessOK'
    BY <1>1, <1>2, <1>3, <1>4 DEF IInv, ProcessOK, Starting, Flushes
  <1> QED
    BY <1>5, <1>6, <1>7 DEF IInv

LEMMA QuitKeeps ==
    ASSUME IInv, NEW code, Quit(code)
    PROVE  IInv'
  <1>1. Idle /\ UNCHANGED <<tmpSynced, unseen, path, hard, dir, anchored, saved, savedHard>>
    BY DEF Quit, fileVars, kept
  <1>2. /\ path' \in Kept /\ hard' \subseteq Kept
        /\ {tmpSynced', unseen', anchored'} \subseteq BOOLEAN /\ dir' \in {"absent", "bare", "ready"}
        /\ saved' \in Ids /\ savedHard' \in [dir : {"bare", "ready"}, next : Ids]
    BY <1>1 DEF IInv, FilesOK, TypeOK
  <1> QED
    BY <1>1, <1>2, IdleKeeps

\* The last close of SQLite, with files that are kept.
LEMMA CloseKeeps ==
    ASSUME IInv, pc \in {"leave"} \cup Flushes, NEW code, Close(code),
           tmpSynced' \in {tmpSynced, FALSE}, UNCHANGED <<unseen, path, hard>>
    PROVE  IInv'
  <1>1. /\ Idle /\ UNCHANGED <<unseen, path, hard, dir, anchored, saved>>
        /\ savedHard' = [dir |-> "ready", next |-> saved]
    BY DEF Close, IInv, ProcessOK
  <1>2. /\ path' \in Kept /\ hard' \subseteq Kept
        /\ {tmpSynced', unseen', anchored'} \subseteq BOOLEAN /\ dir' \in {"absent", "bare", "ready"}
        /\ saved' \in Ids /\ savedHard' \in [dir : {"bare", "ready"}, next : Ids]
    BY <1>1 DEF IInv, FilesOK, TypeOK
  <1> QED
    BY <1>1, <1>2, IdleKeeps

LEMMA CreateKeeps ==
    ASSUME IInv, Create
    PROVE  IInv'
  <1>1. CASE Quit(2)
    BY <1>1, QuitKeeps
  <1>2. CASE ~Quit(2)
    <2>1. /\ dir' = "bare" /\ pc = "create" /\ pc' = "configure"
          /\ UNCHANGED <<tmp, tmpSynced, unseen, path, hard, anchored, saved, savedHard, cmd, exit,
                         mem, next, dirty, row, unwinding>>
      BY <1>2 DEF Create, fileVars, kept, memory
    <2>2. TypeOK' /\ mem' \in Contents
      BY <2>1 DEF IInv, TypeOK
    <2>3. FilesOK' /\ FlushOK'
      BY <2>1 DEF IInv, FilesOK, FlushOK
    <2>4. ProcessOK'
      BY <2>1 DEF IInv, ProcessOK, Starting, Flushes
    <2> QED
      BY <2>2, <2>3, <2>4 DEF IInv
  <1> QED
    BY <1>1, <1>2

LEMMA ConfigureKeeps ==
    ASSUME IInv, Configure
    PROVE  IInv'
  <1>1. /\ pc = "configure" /\ pc' = "tmp" /\ dir' = "ready" /\ saved' = 0 /\ dirty' = TRUE
        /\ UNCHANGED <<tmp, tmpSynced, unseen, path, hard, anchored, savedHard, cmd, exit,
                       mem, next, row, unwinding>>
    BY DEF Configure, fileVars
  <1>2. TypeOK' /\ mem' \in Contents
    BY <1>1, ZeroIsId DEF IInv, TypeOK
  <1>3. FilesOK' /\ FlushOK'
    BY <1>1 DEF IInv, FilesOK, FlushOK
  <1>4. ProcessOK'
    BY <1>1 DEF IInv, ProcessOK, Starting, Flushes
  <1> QED
    BY <1>2, <1>3, <1>4 DEF IInv

LEMMA OpenKeeps ==
    ASSUME IInv, Open
    PROVE  IInv'
  <1>1. CASE \E code \in {1, 2} : Quit(code)
    BY <1>1, QuitKeeps
  <1>2. CASE ~ \E code \in {1, 2} : Quit(code)
    <2>1. /\ pc = "open" /\ dir = "ready"
          /\ mem' = OnDisk /\ next' = saved /\ dirty' \in BOOLEAN /\ row' = 0
          /\ exit' = Refused
          /\ pc' = IF Refused # 0 THEN "leave" ELSE "run"
          /\ UNCHANGED <<tmp, tmpSynced, unseen, path, hard, dir, anchored, saved, savedHard, cmd, unwinding>>
      BY <1>2 DEF Open, fileVars, kept
    <2>2. Refused \in 0 .. 2 /\ Refused' = Refused
      BY <2>1, RefusalCodes DEF Refused
    <2>3. mem' \in Contents
      BY <2>1, KeptHolds DEF IInv, FilesOK, OnDisk
    <2>4. TypeOK'
      BY <2>1, <2>2, <2>3 DEF IInv, TypeOK, Contents
    <2>5. FilesOK' /\ FlushOK'
      BY <2>1 DEF IInv, FilesOK, FlushOK
    <2>6. ProcessOK'
      BY <2>1, <2>2 DEF IInv, ProcessOK, Starting, Flushes
    <2> QED
      BY <2>3, <2>4, <2>5, <2>6 DEF IInv
  <1> QED
    BY <1>1, <1>2

\* A handler that leaves with its database as it was.
LEMMA LeaveKeeps ==
    ASSUME IInv, pc = "run", NEW code \in 0 .. 3, Leave(code), UNCHANGED memory
    PROVE  IInv'
  <1>1. /\ pc' = "leave" /\ exit' = code
        /\ UNCHANGED <<tmp, tmpSynced, unseen, path, hard, dir, anchored, saved, savedHard, cmd, unwinding,
                       mem, next, dirty, row>>
    BY DEF Leave, fileVars, kept, memory
  <1>2. TypeOK' /\ mem' \in Contents
    BY <1>1 DEF IInv, TypeOK
  <1>3. FilesOK' /\ FlushOK'
    BY <1>1 DEF IInv, FilesOK, FlushOK
  <1>4. ProcessOK'
    BY <1>1 DEF IInv, ProcessOK, Starting, Flushes
  <1> QED
    BY <1>2, <1>3, <1>4 DEF IInv

\* A handler that comes to its flush.
LEMMA FlushingKeeps ==
    ASSUME IInv, pc = "run", mem' \in Contents, next' \in Ids, dirty' \in BOOLEAN,
           NEW code \in 0 .. 3, Flushing(dirty', code),
           UNCHANGED <<fileVars, dir, kept, cmd, row, unwinding>>
    PROVE  IInv'
  <1>1. /\ pc' \in {"tmp", "leave"} /\ exit' = code
        /\ UNCHANGED <<tmp, tmpSynced, unseen, path, hard, dir, anchored, saved, savedHard, cmd, unwinding, row>>
    BY DEF Flushing, fileVars, kept
  <1>2. TypeOK'
    BY <1>1 DEF IInv, TypeOK, Contents
  <1>3. FilesOK' /\ FlushOK'
    BY <1>1 DEF IInv, FilesOK, FlushOK
  <1>4. ProcessOK'
    BY <1>1 DEF IInv, ProcessOK, Starting, Flushes
  <1> QED
    BY <1>2, <1>3, <1>4 DEF IInv

\* The command of a handler that runs.
LEMMA RunningOf ==
    ASSUME IInv, pc = "run"
    PROVE  /\ cmd.name \in DOMAIN Reads
           /\ \E line \in CommandLines : cmd.args = Parse(line.argv)
           /\ Refusal(cmd.name, cmd.args) = 0
           /\ mem \in Contents /\ next \in Ids /\ dirty \in BOOLEAN /\ row \in Nat
  BY DEF IInv, ProcessOK, TypeOK, Refused

LEMMA InsertKeeps ==
    ASSUME IInv, Insert
    PROVE  IInv'
  <1> DEFINE id == IF Has(cmd.args, "id") THEN Number(cmd.args, "id", 0) ELSE next
             v  == Value(cmd.args, "vector").n
  <1>1. pc = "run" /\ cmd.name = "insert"
    BY DEF Insert, Running
  <1>2. CASE \E code \in {1, 2} : Leave(code) /\ UNCHANGED memory
    BY <1>1, <1>2, LeaveKeeps
  <1>3. CASE ~ \E code \in {1, 2} : Leave(code) /\ UNCHANGED memory
    <2>1. /\ id \notin IdsOf(mem) /\ v \in Vecs
          /\ InsertEntry(id, v) /\ Flushing(TRUE, 0)
          /\ UNCHANGED <<fileVars, dir, kept, cmd, row, unwinding>>
      BY <1>3 DEF Insert
    <2>2. id \in Ids
      <3>1. PICK line \in CommandLines : cmd.args = Parse(line.argv)
        BY <1>1, RunningOf
      <3>2. Refusal("insert", Parse(line.argv)) = 0 /\ next \in Ids
        BY <1>1, <3>1, RunningOf
      <3>3. Number(Parse(line.argv), "id", 0) \in Ids
        BY <3>2, TypedId, ZeroIsId DEF Reads
      <3> QED
        BY <3>1, <3>2, <3>3
    <2>3. mem' = mem \cup {[id |-> id, vec |-> v]} /\ next' = NextAfter(id, next) /\ dirty' = TRUE
      BY <2>1 DEF InsertEntry
    <2> HIDE DEF id, v
    <2>4. mem' \in Contents /\ next' \in Ids
      BY <1>1, <2>1, <2>2, <2>3, RunningOf, EntryAdded, NextIsId
    <2>5. Flushing(dirty', 0)
      BY <2>1, <2>3
    <2> QED
      BY <1>1, <2>1, <2>3, <2>4, <2>5, FlushingKeeps
  <1> QED
    BY <1>2, <1>3

LEMMA DeleteKeeps ==
    ASSUME IInv, Delete
    PROVE  IInv'
  <1>1. pc = "run" /\ cmd.name = "delete"
    BY DEF Delete, Running
  <1>2. CASE Leave(2) /\ UNCHANGED memory
    BY <1>1, <1>2, LeaveKeeps
  <1>3. CASE ~(Leave(2) /\ UNCHANGED memory)
    <2> DEFINE id == IdArgument(cmd.args).n
               code == IF id \in IdsOf(mem) THEN 0 ELSE 1
    <2>1. /\ mem' = {e \in mem : e.id # id}
          /\ dirty' = (dirty \/ id \in IdsOf(mem))
          /\ Flushing(dirty', code)
          /\ UNCHANGED <<fileVars, dir, kept, cmd, next, row, unwinding>>
      BY <1>3 DEF Delete
    <2>2. mem' \in Contents
      BY <1>1, <2>1, RunningOf, EntryRemoved
    <2>3. next' \in Ids /\ dirty' \in BOOLEAN
      BY <1>1, <2>1, RunningOf
    <2>4. code \in 0 .. 3
      OBVIOUS
    <2>5. PICK c \in 0 .. 3 : c = code
      BY <2>4
    <2>6. Flushing(dirty', c) /\ UNCHANGED <<fileVars, dir, kept, cmd, row, unwinding>>
      BY <2>1, <2>5
    <2> QED
      BY <1>1, <2>2, <2>3, <2>6, FlushingKeeps
  <1> QED
    BY <1>2, <1>3

LEMMA ReadInputKeeps ==
    ASSUME IInv, ReadInput
    PROVE  IInv'
  <1>1. pc = "run" /\ cmd.name = "import"
    BY DEF ReadInput, Running
  <1>2. CASE InputRefusal(cmd.args) # 0
    <2>1. PICK code \in 0 .. 3 : code = InputRefusal(cmd.args)
      BY RefusalCodes
    <2>2. Leave(code) /\ UNCHANGED memory
      BY <1>2, <2>1 DEF ReadInput
    <2> QED
      BY <1>1, <2>2, LeaveKeeps
  <1>3. CASE InputRefusal(cmd.args) = 0
    <2>1. /\ row' = 1
          /\ UNCHANGED <<tmp, tmpSynced, unseen, path, hard, dir, anchored, saved, savedHard, pc, cmd, exit,
                         mem, next, dirty, unwinding>>
      BY <1>3 DEF ReadInput, fileVars, kept
    <2>2. TypeOK' /\ mem' \in Contents
      BY <2>1 DEF IInv, TypeOK
    <2>3. FilesOK' /\ FlushOK'
      BY <1>1, <2>1 DEF IInv, FilesOK, FlushOK
    <2>4. ProcessOK'
      BY <1>1, <1>3, <2>1 DEF IInv, ProcessOK, Starting, Flushes, Refused
    <2> QED
      BY <2>2, <2>3, <2>4 DEF IInv
  <1> QED
    BY <1>2, <1>3

\* A row that is inserted, by the id and the vector.
LEMMA RowOf ==
    ASSUME IInv, pc = "run", cmd.name = "import", row > 0, row <= Len(Batch(cmd.args).vecs)
    PROVE  InputRefusal(cmd.args) = 0 /\ RowId(cmd.args, row, next) \in Ids
  <1>1. InputRefusal(cmd.args) = 0
    BY DEF IInv, ProcessOK
  <1>2. PICK line \in CommandLines : cmd.args = Parse(line.argv)
    BY RunningOf
  <1>3. Refusal("import", Parse(line.argv)) = 0 /\ next \in Ids /\ row \in Nat
    BY <1>2, RunningOf
  <1>4. Len(Batch(Parse(line.argv)).vecs) \in Nat
    BY <1>1, <1>2, BatchOf
  <1>5. row \in 1 .. Len(Batch(Parse(line.argv)).vecs)
    BY <1>2, <1>3, <1>4
  <1>6. RowId(Parse(line.argv), row, next) \in Ids
    BY <1>1, <1>2, <1>3, <1>5, RowIdIsId
  <1> QED
    BY <1>1, <1>2, <1>6

LEMMA ImportRowKeeps ==
    ASSUME IInv, ImportRow
    PROVE  IInv'
  <1> DEFINE id == RowId(cmd.args, row, next)
             v  == Batch(cmd.args).vecs[row]
  <1>1. /\ pc = "run" /\ cmd.name = "import"
        /\ row > 0 /\ row <= Len(Batch(cmd.args).vecs)
    BY DEF ImportRow, Running
  <1>2. CASE \E code \in {1, 2} : Leave(code) /\ UNCHANGED memory
    BY <1>1, <1>2, LeaveKeeps
  <1>3. CASE ~ \E code \in {1, 2} : Leave(code) /\ UNCHANGED memory
    <2>1. /\ id \notin IdsOf(mem) /\ v \in Vecs
          /\ InsertEntry(id, v) /\ row' = row + 1
          /\ UNCHANGED <<tmp, tmpSynced, unseen, path, hard, dir, anchored, saved, savedHard, pc, cmd, exit,
                         unwinding>>
      BY <1>3 DEF ImportRow, fileVars, kept
    <2>2. id \in Ids /\ InputRefusal(cmd.args) = 0
      BY <1>1, RowOf
    <2>3. mem' = mem \cup {[id |-> id, vec |-> v]} /\ next' = NextAfter(id, next) /\ dirty' = TRUE
      BY <2>1 DEF InsertEntry
    <2> HIDE DEF id, v
    <2>4. mem' \in Contents /\ next' \in Ids
      BY <1>1, <2>1, <2>2, <2>3, RunningOf, EntryAdded, NextIsId
    <2>5. TypeOK'
      BY <2>1, <2>3, <2>4 DEF IInv, TypeOK, Contents
    <2>6. FilesOK' /\ FlushOK'
      BY <1>1, <2>1 DEF IInv, FilesOK, FlushOK
    <2>7. ProcessOK'
      BY <1>1, <2>1, <2>2, RunningOf DEF IInv, ProcessOK, Starting, Flushes, Refused
    <2> QED
      BY <2>4, <2>5, <2>6, <2>7 DEF IInv
  <1> QED
    BY <1>2, <1>3

LEMMA ImportEndsKeeps ==
    ASSUME IInv, ImportEnds
    PROVE  IInv'
  <1>1. /\ pc = "run"
        /\ Flushing(dirty, 0)
        /\ UNCHANGED <<fileVars, dir, kept, cmd, row, unwinding, mem, next, dirty>>
    BY DEF ImportEnds, Running, memory
  <1>2. mem' \in Contents /\ next' \in Ids /\ dirty' \in BOOLEAN /\ Flushing(dirty', 0)
    BY <1>1, RunningOf
  <1> QED
    BY <1>1, <1>2, FlushingKeeps

LEMMA MaintainKeeps ==
    ASSUME IInv, Maintain
    PROVE  IInv'
  <1>1. CASE Leave(0) /\ UNCHANGED memory
    BY <1>1, LeaveKeeps DEF Maintain
  <1>2. CASE ~(Leave(0) /\ UNCHANGED memory)
    <2>1. /\ pc = "run" /\ dirty' = TRUE
          /\ Flushing(dirty', 0)
          /\ UNCHANGED <<fileVars, dir, kept, cmd, row, unwinding, mem, next>>
      BY <1>2 DEF Maintain
    <2>2. mem' \in Contents /\ next' \in Ids /\ dirty' \in BOOLEAN
      BY <2>1, RunningOf
    <2> QED
      BY <2>1, <2>2, FlushingKeeps
  <1> QED
    BY <1>1, <1>2

\* What a reading handler does.
LEMMA ReadLeaves ==
    ASSUME Read
    PROVE  /\ pc = "run" /\ UNCHANGED memory
           /\ cmd.name \in {"info", "stats", "get", "search", "batch", "export", "check"}
           /\ \E code \in 0 .. 3 : Leave(code)
  BY DEF Read, BatchCode

LEMMA ReadKeeps ==
    ASSUME IInv, Read
    PROVE  IInv'
  BY ReadLeaves, LeaveKeeps

LEMMA DestroyKeeps ==
    ASSUME IInv, Destroy
    PROVE  IInv'
  <1>1. CASE ~dirty
    <2>1. /\ Close(exit) /\ pc = "leave"
          /\ tmpSynced' \in {tmpSynced, FALSE} /\ UNCHANGED <<unseen, path, hard>>
      BY <1>1 DEF Destroy, fileVars
    <2>2. PICK code : code = exit
      OBVIOUS
    <2> QED
      BY <2>1, <2>2, CloseKeeps
  <1>2. CASE dirty
    <2>1. /\ pc = "leave" /\ pc' = "tmp" /\ unwinding' = TRUE
          /\ UNCHANGED <<tmp, tmpSynced, unseen, path, hard, dir, anchored, saved, savedHard, cmd, exit,
                         mem, next, dirty, row>>
      BY <1>2 DEF Destroy, fileVars, kept, memory
    <2>2. TypeOK' /\ mem' \in Contents
      BY <2>1 DEF IInv, TypeOK
    <2>3. FilesOK' /\ FlushOK'
      BY <2>1 DEF IInv, FilesOK, FlushOK
    <2>4. ProcessOK'
      BY <2>1 DEF IInv, ProcessOK, Starting, Flushes
    <2> QED
      BY <2>2, <2>3, <2>4 DEF IInv
  <1> QED
    BY <1>1, <1>2

\* A step of the flush that keeps the files and their progress.
LEMMA FlushStepKeeps ==
    ASSUME IInv, pc \in Flushes, pc' \in Flushes,
           UNCHANGED <<dir, kept, cmd, exit, memory, unwinding>>,
           {tmpSynced', unseen'} \subseteq BOOLEAN, FilesOK', FlushOK'
    PROVE  IInv'
  <1>1. UNCHANGED <<dir, anchored, saved, savedHard, cmd, exit, mem, next, dirty, row, unwinding>>
    BY DEF kept, memory
  <1>2. TypeOK' /\ mem' \in Contents
    BY <1>1 DEF IInv, TypeOK
  <1>3. ProcessOK'
    BY <1>1 DEF IInv, ProcessOK, Starting, Flushes
  <1> QED
    BY <1>2, <1>3 DEF IInv

LEMMA WriteFileKeeps ==
    ASSUME IInv, WriteFile
    PROVE  IInv'
  <1> USE DEF Flushes
  <1>1. mem \in Contents /\ {tmpSynced, unseen} \subseteq BOOLEAN /\ FilesOK /\ FlushOK
    BY DEF IInv, TypeOK
  <1>2. /\ RegionCount(mem) \in Nat \ {0}
        /\ FileOf(mem) = Part(mem, RegionCount(mem))
    BY RegionsOf
  <1>3. CASE FlushStep("tmp", OpenTmp, "chunks")
    <2>1. /\ pc = "tmp" /\ pc' = "chunks" /\ tmp' = <<>> /\ tmpSynced' = FALSE
          /\ UNCHANGED <<unseen, path, hard, dir, kept, cmd, exit, memory, unwinding>>
      BY <1>3 DEF FlushStep, OpenTmp
    <2>2. mem' = mem
      BY <2>1 DEF memory
    <2>3. tmp' = Part(mem', 0)
      BY <2>1, PartFacts
    <2>4. 0 \in 0 .. RegionCount(mem') - 1
      BY <1>2, <2>2
    <2>5. FlushOK'
      BY <2>1, <2>3, <2>4 DEF FlushOK
    <2>6. FilesOK'
      BY <1>1, <2>1 DEF FilesOK
    <2>7. {tmpSynced', unseen'} \subseteq BOOLEAN
      BY <1>1, <2>1
    <2> QED
      BY <2>1, <2>5, <2>6, <2>7, FlushStepKeeps
  <1>4. CASE FlushStep("chunks", WriteChunk(mem),
                       IF Len(tmp) + 1 < RegionCount(mem) THEN "chunks" ELSE "fsync")
    <2>1. /\ pc = "chunks" /\ tmp' = Append(tmp, Region(mem, Len(tmp) + 1))
          /\ pc' = IF Len(tmp) + 1 < RegionCount(mem) THEN "chunks" ELSE "fsync"
          /\ UNCHANGED <<tmpSynced, unseen, path, hard, dir, kept, cmd, exit, memory, unwinding>>
      BY <1>4 DEF FlushStep, WriteChunk
    <2>2. mem' = mem
      BY <2>1 DEF memory
    <2>3. PICK k \in 0 .. RegionCount(mem) - 1 : tmp = Part(mem, k)
      BY <1>1, <2>1 DEF FlushOK
    <2>4. k \in Nat /\ Len(tmp) = k
      BY <1>2, <2>3, PartFacts
    <2>5. PICK c : c = mem
      OBVIOUS
    <2>6. Append(Part(c, k), Region(c, k + 1)) = Part(c, k + 1)
      BY <2>4, PartFacts
    <2>7. tmp' = Part(mem', k + 1)
      BY <2>1, <2>2, <2>3, <2>4, <2>5, <2>6
    <2>8. CASE k + 1 < RegionCount(mem)
      <3>1. pc' = "chunks"
        BY <2>1, <2>4, <2>8
      <3>2. k + 1 \in 0 .. RegionCount(mem') - 1
        BY <1>2, <2>2, <2>4, <2>8
      <3> QED
        BY <1>1, <2>1, <2>7, <3>1, <3>2, FlushStepKeeps DEF FlushOK, FilesOK
    <2>9. CASE ~(k + 1 < RegionCount(mem))
      <3>1. pc' = "fsync"
        BY <2>1, <2>4, <2>9
      <3>2. k + 1 = RegionCount(mem)
        BY <1>2, <2>4, <2>9, <2>3
      <3>3. tmp' = FileOf(mem')
        BY <1>2, <2>2, <2>7, <3>2
      <3> QED
        BY <1>1, <2>1, <3>1, <3>3, FlushStepKeeps DEF FlushOK, FilesOK
    <2> QED
      BY <2>8, <2>9
  <1>5. CASE FlushStep("fsync", Fsync, "rename")
    <2>1. /\ pc = "fsync" /\ pc' = "rename" /\ tmpSynced' = TRUE
          /\ UNCHANGED <<tmp, unseen, path, hard, dir, kept, cmd, exit, memory, unwinding>>
      BY <1>5 DEF FlushStep, Fsync
    <2>2. tmp' = FileOf(mem')
      BY <1>1, <2>1 DEF FlushOK, memory
    <2> QED
      BY <1>1, <2>1, <2>2, FlushStepKeeps DEF FlushOK, FilesOK
  <1>6. CASE FlushStep("rename", Rename, "syncdir")
    <2>1. /\ pc = "rename" /\ pc' = "syncdir" /\ path' = tmp
          /\ hard' = hard \cup Survivors(tmp, tmpSynced)
          /\ UNCHANGED <<tmpSynced, unseen, dir, kept, cmd, exit, memory, unwinding>>
      BY <1>6 DEF FlushStep, Rename
    <2>2. tmp = FileOf(mem) /\ tmpSynced /\ mem' = mem
      BY <1>1, <2>1 DEF FlushOK, memory
    <2>3. Survivors(tmp, tmpSynced) = {tmp}
      BY <2>2 DEF Survivors
    <2>4. FilesOK'
      BY <1>1, <2>1, <2>2, <2>3, HeldOf DEF FilesOK
    <2>5. FlushOK'
      BY <2>1, <2>2 DEF FlushOK
    <2> QED
      BY <1>1, <2>1, <2>4, <2>5, FlushStepKeeps
  <1>7. CASE FlushStep("syncdir", SyncDirectory, "nextid")
    <2>1. /\ pc = "syncdir" /\ pc' = "nextid"
          /\ hard' = Survivors(path, tmpSynced)
          /\ tmpSynced' = FALSE /\ unseen' = FALSE
          /\ UNCHANGED <<tmp, path, dir, kept, cmd, exit, memory, unwinding>>
      BY <1>7 DEF FlushStep, SyncDirectory
    <2>2. path = FileOf(mem) /\ tmpSynced /\ mem' = mem
      BY <1>1, <2>1 DEF FlushOK, memory
    <2>3. Survivors(path, tmpSynced) = {path}
      BY <2>2 DEF Survivors
    <2>4. FilesOK'
      BY <1>1, <2>1, <2>3 DEF FilesOK
    <2>5. FlushOK'
      BY <2>1, <2>2, <2>3 DEF FlushOK
    <2> QED
      BY <1>1, <2>1, <2>4, <2>5, FlushStepKeeps
  <1> QED
    BY <1>3, <1>4, <1>5, <1>6, <1>7 DEF WriteFile

LEMMA SyncUnseenKeeps ==
    ASSUME IInv, SyncUnseen
    PROVE  IInv'
  <1>1. /\ pc = "syncdir" /\ pc' = "nextid" /\ tmpSynced' = FALSE /\ unseen' = TRUE
        /\ UNCHANGED <<tmp, path, hard, dir, kept, cmd, exit, memory, unwinding>>
    BY DEF SyncUnseen, SyncDirectoryUnseen
  <1>2. mem' = mem
    BY <1>1 DEF memory
  <1>3. FilesOK' /\ FlushOK'
    BY <1>1, <1>2 DEF IInv, FilesOK, FlushOK
  <1> QED
    BY <1>1, <1>3, FlushStepKeeps DEF Flushes

LEMMA CreateFailsKeeps ==
    ASSUME IInv, CreateFails
    PROVE  IInv'
  <1>1. Idle /\ UNCHANGED <<tmpSynced, unseen, path, hard, dir, anchored, saved, savedHard>>
    BY DEF CreateFails, fileVars, kept
  <1>2. /\ path' \in Kept /\ hard' \subseteq Kept
        /\ {tmpSynced', unseen', anchored'} \subseteq BOOLEAN /\ dir' \in {"absent", "bare", "ready"}
        /\ saved' \in Ids /\ savedHard' \in [dir : {"bare", "ready"}, next : Ids]
    BY <1>1 DEF IInv, FilesOK, TypeOK
  <1> QED
    BY <1>1, <1>2, IdleKeeps

LEMMA SettleKeeps ==
    ASSUME IInv, Settle
    PROVE  IInv'
  <1>1. /\ anchored' = TRUE
        /\ UNCHANGED <<tmp, tmpSynced, unseen, path, hard, dir, saved, savedHard, pc, cmd, exit,
                       mem, next, dirty, row, unwinding>>
    BY DEF Settle, fileVars, memory
  <1>2. TypeOK' /\ mem' \in Contents
    BY <1>1 DEF IInv, TypeOK
  <1>3. FilesOK' /\ FlushOK'
    BY <1>1 DEF IInv, FilesOK, FlushOK
  <1>4. ProcessOK'
    BY <1>1 DEF IInv, ProcessOK, Refused
  <1> QED
    BY <1>2, <1>3, <1>4 DEF IInv

LEMMA SaveNextIdKeeps ==
    ASSUME IInv, SaveNextId
    PROVE  IInv'
  <1>1. /\ pc = "nextid" /\ pc' = "leave" /\ saved' = next /\ dirty' = FALSE
        /\ UNCHANGED <<tmp, tmpSynced, unseen, path, hard, dir, anchored, savedHard, cmd, exit, mem, next, row,
                       unwinding>>
    BY DEF SaveNextId, fileVars
  <1>2. TypeOK' /\ mem' \in Contents
    BY <1>1 DEF IInv, TypeOK
  <1>3. FilesOK' /\ FlushOK'
    BY <1>1 DEF IInv, FilesOK, FlushOK
  <1>4. ProcessOK'
    BY <1>1 DEF IInv, ProcessOK, Starting, Flushes
  <1> QED
    BY <1>2, <1>3, <1>4 DEF IInv

LEMMA FlushFailsKeeps ==
    ASSUME IInv, FlushFails
    PROVE  IInv'
  <1>1. /\ pc \in Flushes
        /\ tmpSynced' = FALSE
        /\ UNCHANGED <<unseen, path, hard>>
    BY DEF FlushFails, Flushes, Abandon
  <1>2. CASE unwinding
    <2>1. Close(exit)
      BY <1>2 DEF FlushFails
    <2>2. PICK code : code = exit
      OBVIOUS
    <2> QED
      BY <1>1, <2>1, <2>2, CloseKeeps
  <1>3. CASE ~unwinding
    <2>1. /\ exit' = 1 /\ pc' = "leave"
          /\ UNCHANGED <<dir, anchored, saved, savedHard, cmd, mem, next, dirty, row, unwinding>>
      BY <1>3 DEF FlushFails, kept, memory
    <2>2. TypeOK' /\ mem' \in Contents
      <3>1. unseen \in BOOLEAN /\ anchored \in BOOLEAN
        BY DEF IInv, TypeOK
      <3>2. {tmpSynced', unseen', anchored'} \subseteq BOOLEAN
        BY <1>1, <2>1, <3>1
      <3>3. exit' \in 0 .. 3
        BY <2>1
      <3> QED
        BY <2>1, <3>2, <3>3 DEF IInv, TypeOK
    <2>3. FilesOK' /\ FlushOK'
      BY <1>1, <2>1 DEF IInv, FilesOK, FlushOK
    <2>4. ProcessOK'
      BY <1>1, <1>3, <2>1 DEF IInv, ProcessOK, Starting, Flushes
    <2> QED
      BY <2>2, <2>3, <2>4 DEF IInv
  <1> QED
    BY <1>2, <1>3

LEMMA KillKeeps ==
    ASSUME IInv, Kill
    PROVE  IInv'
  <1>1. /\ Idle /\ tmpSynced' = FALSE
        /\ UNCHANGED <<unseen, path, hard, dir, anchored, saved, savedHard>>
    BY DEF Kill, Abandon, kept
  <1>2. /\ path' \in Kept /\ hard' \subseteq Kept
        /\ {tmpSynced', unseen', anchored'} \subseteq BOOLEAN /\ dir' \in {"absent", "bare", "ready"}
        /\ saved' \in Ids /\ savedHard' \in [dir : {"bare", "ready"}, next : Ids]
    BY <1>1 DEF IInv, FilesOK, TypeOK
  <1> QED
    BY <1>1, <1>2, IdleKeeps

LEMMA PowerCutKeeps ==
    ASSUME IInv, PowerCut
    PROVE  IInv'
  <1>1. Idle /\ tmpSynced' = FALSE /\ unseen' = FALSE
    BY DEF PowerCut, KeepsDirectory, LosePower, LosesDirectory
  <1>2. CASE KeepsDirectory
    <2>1. /\ path' \in hard /\ hard' = {path'} /\ anchored' \in BOOLEAN
          /\ \/ UNCHANGED <<dir, saved>>
             \/ dir' = savedHard.dir /\ saved' = savedHard.next
          /\ savedHard' = IF dir' = "ready" THEN [dir |-> dir', next |-> saved'] ELSE savedHard
      BY <1>2 DEF KeepsDirectory, LosePower
    <2>2. savedHard.dir \in {"bare", "ready"} /\ savedHard.next \in Ids
      BY DEF IInv, TypeOK
    <2>3. /\ saved' \in Ids /\ dir' \in {"absent", "bare", "ready"}
          /\ savedHard' \in [dir : {"bare", "ready"}, next : Ids]
      BY <2>1, <2>2 DEF IInv, TypeOK
    <2>4. path' \in Kept /\ hard' \subseteq Kept
      BY <2>1 DEF IInv, FilesOK
    <2> QED
      BY <1>1, <2>1, <2>3, <2>4, IdleKeeps
  <1>3. CASE LosesDirectory
    <2>1. /\ path' \in Kept /\ hard' \subseteq Kept /\ anchored' \in BOOLEAN
          /\ dir' = "absent" /\ saved' \in Ids
          /\ savedHard' \in [dir : {"bare", "ready"}, next : Ids]
      BY <1>3, ZeroIsId DEF LosesDirectory, Kept
    <2> QED
      BY <1>1, <2>1, IdleKeeps
  <1> QED
    BY <1>2, <1>3 DEF PowerCut

LEMMA InvariantNext ==
    ASSUME IInv, [Next]_vars
    PROVE  IInv'
  <1>1. CASE UNCHANGED vars
    BY <1>1, SameKeeps DEF vars, fileVars, kept, memory
  <1>2. ASSUME NEW line \in CommandLines, Answer(line)
        PROVE  IInv'
    BY <1>2, SameKeeps DEF Answer
  <1>3. ASSUME NEW line \in CommandLines, Dispatch(line)
        PROVE  IInv'
    BY <1>3, DispatchKeeps
  <1>4. CASE Generate
    BY <1>4, QuitKeeps DEF Generate
  <1> QED
    BY <1>1, <1>2, <1>3, <1>4, CreateKeeps, ConfigureKeeps, OpenKeeps, InsertKeeps, DeleteKeeps,
       ReadInputKeeps, ImportRowKeeps, ImportEndsKeeps, MaintainKeeps, ReadKeeps, DestroyKeeps,
       WriteFileKeeps, SyncUnseenKeeps, SaveNextIdKeeps, CreateFailsKeeps, SettleKeeps,
       FlushFailsKeeps, KillKeeps, PowerCutKeeps
       DEF Next

LEMMA InvariantInit == Init => IInv
  <1> SUFFICES ASSUME Init PROVE IInv
    OBVIOUS
  <1>1. TypeOK /\ mem \in Contents
    <2>1. 0 \in Ids /\ {} \in Contents
      BY ZeroIsId, NoContents
    <2>2. /\ {tmpSynced, unseen, anchored} \subseteq BOOLEAN /\ dirty \in BOOLEAN /\ unwinding \in BOOLEAN
          /\ dir = "absent" /\ saved = 0 /\ next = 0 /\ exit = 0 /\ mem = {}
          /\ savedHard = [dir |-> "bare", next |-> 0]
      BY DEF Init, FileInit
    <2>3. savedHard \in [dir : {"bare", "ready"}, next : Ids] /\ mem \subseteq Entry
      BY <2>1, <2>2
    <2> QED
      BY <2>1, <2>2, <2>3 DEF TypeOK
  <1>2. FilesOK /\ FlushOK
    BY DEF Init, FileInit, FilesOK, FlushOK, Kept
  <1>3. ProcessOK
    BY DEF Init, ProcessOK, Starting, Flushes
  <1> QED
    BY <1>1, <1>2, <1>3 DEF IInv

\* The invariant of the program, for every value of the constants.
THEOREM CommandsInvariant == Spec => []IInv
  BY InvariantInit, InvariantNext, PTL DEF Spec

\* The types: ids stay within 64 bits, through the counter that wraps
\* (Database::insert) and start ids that wrap (command_import).
THEOREM CommandTypes == Spec => []TypeOK
  <1>1. IInv => TypeOK
    BY DEF IInv
  <1> QED
    BY <1>1, CommandsInvariant, PTL

\* "A reader ever sees the complete old file or the complete new one"
\* (file_io.hpp), and finds each id once in it, whatever stops the program.
THEOREM FilesAreWhole == Spec => []FileIsWhole
  <1>1. IInv => FileIsWhole
    <2> SUFFICES ASSUME IInv, NEW file \in hard \cup {path}
                 PROVE  /\ Whole(file)
                        /\ file # <<>> => \A a, b \in file[1].of : a.id = b.id => a = b
      BY DEF FileIsWhole
    <2>1. file \in Kept
      BY DEF IInv, FilesOK
    <2> QED
      BY <2>1, KeptHolds DEF Contents
  <1> QED
    BY <1>1, CommandsInvariant, PTL

-----------------------------------------------------------------------------
(***************************************************************************)
(* Success is durable.  A writing command that is on its way out with exit *)
(* code 0 has been through a whole flush: it is not dirty, and its file is *)
(* the only one that a power cut can leave.  So the destructor never       *)
(* flushes for it, and what the destructor loses in silence was not its.   *)
(***************************************************************************)
\* The property, but for the entry of the directory.
Survives ==
    /\ pc = "shell"
    /\ ran.how = 0
    /\ Writes(ran.cmd)
    /\ ~unseen
    => /\ \A file \in hard : Readable(file) /\ file[1].of = ran.after
       /\ savedHard = [dir |-> "ready", next |-> saved]

DurableInv ==
    /\ pc = "leave" /\ exit = 0 /\ Writes(cmd) =>
           ~dirty /\ path = FileOf(mem) /\ (unseen \/ hard = {path})
    /\ unwinding /\ exit = 0 => ~Writes(cmd)
    /\ pc = "run" /\ row > 1 => dirty
    /\ Survives

\* The n-th of all positions is the n-th.
LEMMA NthOfInterval ==
    ASSUME NEW len \in Nat, NEW n \in 1 .. len
    PROVE  Nth(1 .. len, n) = n
  <1>1. \A i \in 1 .. len : Cardinality({j \in 1 .. len : j <= i}) = i
    <2> TAKE i \in 1 .. len
    <2>1. {j \in 1 .. len : j <= i} = 1 .. i
      OBVIOUS
    <2>2. Cardinality(1 .. i) = i
      BY FS_Interval
    <2> QED
      BY <2>1, <2>2
  <1>2. Nth(1 .. len, n) = CHOOSE i \in 1 .. len : Cardinality({j \in 1 .. len : j <= i}) = n
    BY DEF Nth
  <1>3. \A i \in 1 .. len : Cardinality({j \in 1 .. len : j <= i}) = n <=> i = n
    BY <1>1
  <1> QED
    BY <1>2, <1>3

\* Where every line has components, the rows are the lines.
LEMMA AllRows ==
    ASSUME NEW f \in DOMAIN Files,
           \A i \in DOMAIN Files[f].lines : Files[f].lines[i].vec # 0
    PROVE  CsvRows(Files[f].lines) = Files[f].lines
  <1> DEFINE lines == Files[f].lines
             rows == {i \in DOMAIN lines : lines[i].vec # 0}
  <1>1. lines \in Seq([id : Ids, vec : Nat])
    BY CommandsAssumption
  <1>2. Len(lines) \in Nat /\ DOMAIN lines = 1 .. Len(lines)
    BY <1>1
  <1>3. rows = 1 .. Len(lines)
    BY <1>2
  <1>4. Cardinality(rows) = Len(lines)
    <2>1. Cardinality(1 .. Len(lines)) = Len(lines)
      BY <1>2, FS_Interval
    <2> QED
      BY <1>3, <2>1
  <1>5. CsvRows(lines) = [n \in 1 .. Cardinality(rows) |-> lines[Nth(rows, n)]]
    BY DEF CsvRows
  <1>6. \A n \in 1 .. Len(lines) : Nth(rows, n) = n
    BY <1>2, <1>3, NthOfInterval
  <1> HIDE DEF rows
  <1>7. CsvRows(lines) = [n \in 1 .. Len(lines) |-> lines[n]]
    BY <1>4, <1>5, <1>6
  <1>8. lines = [n \in 1 .. Len(lines) |-> lines[n]]
    BY <1>1, <1>2
  <1> QED
    BY <1>7, <1>8

\* The vectors of an accepted file are those of its lines that have any.
LEMMA BatchVecs ==
    ASSUME NEW c, InputRefusal(c.args) = 0
    PROVE  /\ Lines(c) = CsvRows(Files[Input(c.args)].lines)
           /\ Len(Lines(c)) \in Nat
           /\ DOMAIN Lines(c) = 1 .. Len(Lines(c))
           /\ Len(Batch(c.args).vecs) = Len(Lines(c))
           /\ \A i \in 1 .. Len(Lines(c)) : Batch(c.args).vecs[i] = Lines(c)[i].vec
  <1>1. Input(c.args) \in DOMAIN Files
    BY BatchOf
  <1> DEFINE file == Files[Input(c.args)]
  <1>2. Lines(c) = CsvRows(file.lines)
    BY <1>1 DEF Lines
  <1>3. Len(Lines(c)) \in Nat /\ DOMAIN Lines(c) = 1 .. Len(Lines(c))
    BY <1>1, <1>2, RowsWithinLines
  <1>4. CASE Has(c.args, "csv")
    <2>1. Batch(c.args).vecs = [i \in 1 .. Len(Lines(c)) |-> Lines(c)[i].vec]
      BY <1>2, <1>3, <1>4 DEF Batch, CsvBatch
    <2> QED
      BY <1>2, <1>3, <2>1
  <1>5. CASE ~Has(c.args, "csv")
    <2>1. file.form = "matrix"
      BY <1>5 DEF InputRefusal, MatrixRefusal
    <2>2. Lines(c) = file.lines
      BY <1>1, <1>2, <2>1, AllRows, CommandsAssumption
    <2>3. Batch(c.args).vecs = [i \in 1 .. Len(Lines(c)) |-> Lines(c)[i].vec]
      BY <1>3, <1>5, <2>2 DEF Batch, MatrixBatch
    <2> QED
      BY <1>2, <1>3, <2>3
  <1> QED
    BY <1>4, <1>5

\* Steps on the way.
LEMMA DurableKept ==
    ASSUME DurableInv, pc' \notin {"shell", "leave"},
           unwinding' => unwinding /\ UNCHANGED <<exit, cmd>>,
           pc' = "run" /\ row' > 1 => dirty'
    PROVE  DurableInv'
  BY DEF DurableInv, Survives

\* A handler that leaves without a flush.
LEMMA LeavesDurable ==
    ASSUME DurableInv, pc' = "leave", ~unwinding', exit' = 0 => ~Writes(cmd')
    PROVE  DurableInv'
  BY DEF DurableInv, Survives

\* A process that ends having written nothing.
LEMMA OverDurable ==
    ASSUME Idle, ran'.how = 0 => ~Writes(ran'.cmd)
    PROVE  DurableInv'
  BY DEF DurableInv, Survives, Idle

LEMMA NoCommandWritesNot == ~Writes(NoCommand)
  BY DEF Writes, NoCommand

LEMMA DurableNext ==
    ASSUME IInv, IInv', DurableInv, [Next]_vars
    PROVE  DurableInv'
  <1> USE DEF Starting, Flushes
  <1>1. CASE UNCHANGED vars
    BY <1>1 DEF vars, fileVars, kept, memory, DurableInv, Survives, Readable, RegionCount
  <1>2. ASSUME NEW line \in CommandLines, Answer(line)
        PROVE  DurableInv'
    <2>1. /\ pc' = "shell" /\ unwinding' = unwinding /\ ~unwinding
          /\ ran'.cmd = NoCommand
      BY <1>2 DEF Answer, IInv, ProcessOK
    <2> QED
      BY <2>1, NoCommandWritesNot DEF DurableInv, Survives
  <1>3. ASSUME NEW line \in CommandLines, Dispatch(line)
        PROVE  DurableInv'
    <2>1. pc' \in {"create", "generate", "open"} /\ ~unwinding'
      BY <1>3 DEF Dispatch, IInv, ProcessOK
    <2> QED
      BY <2>1, DurableKept
  <1>4. ASSUME NEW code, Quit(code), code # 0 \/ ~Writes(cmd)
        PROVE  DurableInv'
    BY <1>4, OverDurable DEF Quit
  <1>5. CASE Generate
    <2>1. ~Writes(cmd)
      BY <1>5 DEF Generate, IInv, ProcessOK, Writes
    <2> QED
      BY <1>5, <2>1, <1>4 DEF Generate
  <1>6. CASE Create
    <2>1. CASE Quit(2)
      BY <2>1, <1>4
    <2>2. CASE ~Quit(2)
      <3>1. pc = "create" /\ pc' = "configure" /\ unwinding' = unwinding /\ ~unwinding
        BY <1>6, <2>2 DEF Create, IInv, ProcessOK
      <3> QED
        BY <3>1, DurableKept
    <2> QED
      BY <2>1, <2>2
  <1>7. CASE Configure
    <2>1. pc' = "tmp" /\ unwinding' = unwinding /\ UNCHANGED <<exit, cmd>>
      BY <1>7 DEF Configure
    <2> QED
      BY <2>1, DurableKept
  <1>8. CASE Open
    <2>1. CASE \E code \in {1, 2} : Quit(code)
      BY <2>1, <1>4
    <2>2. CASE ~ \E code \in {1, 2} : Quit(code)
      <3>1. /\ pc = "open" /\ unwinding' = unwinding /\ ~unwinding /\ row' = 0
            /\ exit' = Refused
            /\ pc' = IF Refused # 0 THEN "leave" ELSE "run"
        BY <1>8, <2>2 DEF Open, IInv, ProcessOK
      <3> QED
        BY <3>1, DurableKept, LeavesDurable
    <2> QED
      BY <2>1, <2>2
  <1>9. ASSUME NEW code, pc = "run", Leave(code), code # 0 \/ ~Writes(cmd)
        PROVE  DurableInv'
    <2>1. pc' = "leave" /\ ~unwinding' /\ exit' = code /\ cmd' = cmd
      BY <1>9 DEF Leave, IInv, ProcessOK
    <2> QED
      BY <1>9, <2>1, LeavesDurable
  <1>10. ASSUME NEW code, pc = "run", Flushing(dirty', code), UNCHANGED <<cmd, unwinding>>,
                ~dirty' => code # 0 \/ ~Writes(cmd)
         PROVE  DurableInv'
    <2>1. /\ ~unwinding' /\ exit' = code /\ cmd' = cmd
          /\ pc' = IF dirty' THEN "tmp" ELSE "leave"
      BY <1>10 DEF Flushing, IInv, ProcessOK
    <2> QED
      BY <1>10, <2>1, LeavesDurable, DurableKept
  <1>11. CASE Insert
    <2>1. CASE \E code \in {1, 2} : Leave(code)
      BY <1>11, <2>1, <1>9 DEF Insert, Running
    <2>2. CASE ~ \E code \in {1, 2} : Leave(code)
      <3>1. /\ pc = "run" /\ dirty' = TRUE
            /\ Flushing(dirty', 0) /\ UNCHANGED <<cmd, unwinding>>
        BY <1>11, <2>2 DEF Insert, Running, InsertEntry
      <3> QED
        BY <3>1, <1>10
    <2> QED
      BY <2>1, <2>2
  <1>12. CASE Delete
    <2>1. CASE Leave(2)
      BY <1>12, <2>1, <1>9 DEF Delete, Running
    <2>2. CASE ~Leave(2)
      <3> DEFINE id == IdArgument(cmd.args).n
      <3>1. /\ pc = "run" /\ dirty' = (dirty \/ id \in IdsOf(mem))
            /\ Flushing(dirty', IF id \in IdsOf(mem) THEN 0 ELSE 1)
            /\ UNCHANGED <<cmd, unwinding>>
        BY <1>12, <2>2 DEF Delete, Running
      <3>2. PICK code : code = IF id \in IdsOf(mem) THEN 0 ELSE 1
        OBVIOUS
      <3>3. ~dirty' => code # 0
        <4>1. id \in IdsOf(mem) => dirty'
          BY <3>1
        <4> QED
          BY <3>2, <4>1
      <3>4. Flushing(dirty', code)
        BY <3>1, <3>2
      <3> QED
        BY <3>1, <3>3, <3>4, <1>10
    <2> QED
      BY <2>1, <2>2
  <1>13. CASE ReadInput
    <2>1. pc = "run" /\ row = 0
      BY <1>13 DEF ReadInput, Running
    <2>2. CASE InputRefusal(cmd.args) # 0
      <3>1. PICK code : code = InputRefusal(cmd.args)
        OBVIOUS
      <3>2. Leave(code) /\ code # 0
        BY <1>13, <2>2, <3>1 DEF ReadInput
      <3> QED
        BY <2>1, <3>2, <1>9
    <2>3. CASE InputRefusal(cmd.args) = 0
      <3>1. /\ pc' = "run" /\ row' = 1 /\ ~unwinding'
        BY <1>13, <2>1, <2>3 DEF ReadInput, IInv, ProcessOK
      <3> QED
        BY <3>1, DurableKept
    <2> QED
      BY <2>2, <2>3
  <1>14. CASE ImportRow
    <2>1. pc = "run"
      BY <1>14 DEF ImportRow, Running
    <2>2. CASE \E code \in {1, 2} : Leave(code)
      BY <2>1, <2>2, <1>9
    <2>3. CASE ~ \E code \in {1, 2} : Leave(code)
      <3>1. dirty' = TRUE /\ pc' = "run" /\ ~unwinding'
        BY <1>14, <2>1, <2>3 DEF ImportRow, InsertEntry, IInv, ProcessOK
      <3> QED
        BY <3>1, DurableKept
    <2> QED
      BY <2>2, <2>3
  <1>15. CASE ImportEnds
    <2>1. /\ pc = "run" /\ cmd.name = "import" /\ row > 0 /\ row > Len(Batch(cmd.args).vecs)
          /\ Flushing(dirty, 0) /\ UNCHANGED <<cmd, unwinding, dirty>>
      BY <1>15 DEF ImportEnds, Running, memory
    <2>2. ASSUME Writes(cmd)
          PROVE  dirty
      <3>1. InputRefusal(cmd.args) = 0 /\ row \in Nat
        BY <2>1 DEF IInv, ProcessOK
      <3>2. PICK c : c = cmd
        OBVIOUS
      <3>3. /\ Len(Lines(c)) \in Nat /\ Lines(c) # <<>>
            /\ DOMAIN Lines(c) = 1 .. Len(Lines(c))
            /\ Len(Batch(c.args).vecs) = Len(Lines(c))
            /\ Lines(c) = CsvRows(Files[Input(c.args)].lines)
        BY <2>1, <2>2, <3>1, <3>2, BatchVecs DEF Writes
      <3>4. Len(Lines(c)) > 0
        <4>1. Input(c.args) \in DOMAIN Files
          BY <3>1, <3>2, BatchOf
        <4> QED
          BY <4>1, <3>3, RowsWithinLines
      <3>5. row > 1
        BY <2>1, <3>1, <3>2, <3>3, <3>4
      <3> QED
        BY <2>1, <3>5 DEF DurableInv
    <2>3. Flushing(dirty', 0) /\ (~dirty' => ~Writes(cmd))
      BY <2>1, <2>2
    <2> QED
      BY <2>1, <2>3, <1>10
  <1>16. CASE Maintain
    <2>1. CASE Leave(0) /\ cmd.name = "compact"
      <3>1. pc = "run" /\ ~Writes(cmd)
        BY <1>16, <2>1 DEF Maintain, Writes
      <3> QED
        BY <2>1, <3>1, <1>9
    <2>2. CASE ~(Leave(0) /\ cmd.name = "compact")
      <3>1. /\ pc = "run" /\ dirty' = TRUE
            /\ Flushing(dirty', 0) /\ UNCHANGED <<cmd, unwinding>>
        BY <1>16, <2>2 DEF Maintain
      <3> QED
        BY <3>1, <1>10
    <2> QED
      BY <2>1, <2>2
  <1>17. CASE Read
    <2>1. PICK code \in 0 .. 3 : Leave(code)
      BY <1>17, ReadLeaves
    <2>2. pc = "run" /\ ~Writes(cmd)
      BY <1>17, ReadLeaves DEF Writes
    <2> QED
      BY <2>1, <2>2, <1>9
  <1>18. CASE Destroy
    <2>1. CASE dirty
      <3>1. /\ pc = "leave" /\ pc' = "tmp" /\ UNCHANGED <<cmd, exit, unseen, path, hard>>
        BY <1>18, <2>1 DEF Destroy, fileVars
      <3>2. ~(exit' = 0 /\ Writes(cmd'))
        BY <2>1, <3>1 DEF DurableInv
      <3> QED
        BY <3>1, <3>2 DEF DurableInv, Survives
    <2>2. CASE ~dirty
      <3>1. /\ pc = "leave" /\ Idle
            /\ ran' = [cmd |-> cmd, how |-> exit, after |-> OnDisk]
            /\ savedHard' = [dir |-> dir, next |-> saved]
            /\ dir = "ready"
            /\ UNCHANGED <<unseen, path, hard, saved>>
        BY <1>18, <2>2 DEF Destroy, Close, fileVars, IInv, ProcessOK
      <3>2. ~unwinding' /\ pc' = "shell"
        BY <3>1 DEF Idle
      <3>3. ASSUME exit = 0, Writes(cmd), ~unseen
            PROVE  \A file \in hard' : Readable(file) /\ file[1].of = ran'.after
        <4>1. path = FileOf(mem) /\ hard = {path} /\ path \in Kept
          BY <3>1, <3>3 DEF DurableInv, IInv, FilesOK
        <4>2. path # <<>>
          BY <4>1, RegionsOf
        <4>3. Readable(path) /\ path[1].of = Held(path)
          BY <4>1, <4>2, KeptHolds
        <4> QED
          BY <3>1, <4>1, <4>3 DEF OnDisk
      <3>4. Survives'
        BY <3>1, <3>3 DEF Survives
      <3> QED
        BY <3>2, <3>4 DEF DurableInv
    <2> QED
      BY <2>1, <2>2
  <1>19. CASE WriteFile
    <2>1. pc' \in {"chunks", "fsync", "rename", "syncdir", "nextid"}
      BY <1>19 DEF WriteFile, FlushStep
    <2>2. UNCHANGED <<cmd, exit, unwinding>>
      BY <1>19 DEF WriteFile, FlushStep
    <2> QED
      BY <2>1, <2>2, DurableKept
  <1>20. CASE SaveNextId
    <2>1. /\ pc = "nextid" /\ pc' = "leave" /\ dirty' = FALSE
          /\ UNCHANGED <<unseen, path, hard, mem, cmd, exit, unwinding>>
      BY <1>20 DEF SaveNextId, fileVars
    <2>2. path' = FileOf(mem') /\ (unseen' \/ hard' = {path'})
      BY <2>1 DEF IInv, FlushOK
    <2> QED
      BY <2>1, <2>2 DEF DurableInv, Survives
  <1>21. CASE FlushFails
    <2>1. CASE unwinding
      <3>1. Idle /\ ran' = [cmd |-> cmd, how |-> exit, after |-> OnDisk]
        BY <1>21, <2>1 DEF FlushFails, Close
      <3>2. ran'.how = 0 => ~Writes(ran'.cmd)
        BY <2>1, <3>1 DEF DurableInv
      <3> QED
        BY <3>1, <3>2, OverDurable
    <2>2. CASE ~unwinding
      <3>1. exit' = 1 /\ pc' = "leave" /\ ~unwinding'
        BY <1>21, <2>2 DEF FlushFails
      <3> QED
        BY <3>1, LeavesDurable
    <2> QED
      BY <2>1, <2>2
  <1>22. CASE Kill \/ PowerCut \/ CreateFails
    BY <1>22, OverDurable DEF Kill, PowerCut, CreateFails
  <1>23. CASE SyncUnseen
    <2>1. pc' = "nextid" /\ UNCHANGED <<cmd, exit, unwinding>>
      BY <1>23 DEF SyncUnseen
    <2> QED
      BY <2>1, DurableKept
  <1>24. CASE Settle
    BY <1>24 DEF Settle, fileVars, memory, DurableInv, Survives, Readable, RegionCount
  <1> QED
    BY <1>1, <1>2, <1>3, <1>5, <1>6, <1>7, <1>8, <1>11, <1>12, <1>13, <1>14, <1>15, <1>16, <1>17,
       <1>18, <1>19, <1>20, <1>21, <1>22, <1>23, <1>24 DEF Next

\* A writing command that returned 0 survives a power cut: write_vector_file
\* has synced the file and its directory, unless that failed unseen, and
\* SQLite's last close the next id; the directory itself is there once its own
\* entry is on the disk.
THEOREM SuccessSurvives == Spec => []SuccessIsDurable
  <1>1. Init => DurableInv
    BY DEF Init, DurableInv, Survives, NeverRan, NoCommand, Writes
  <1>2. DurableInv => SuccessIsDurable
    BY DEF DurableInv, Survives, SuccessIsDurable
  <1>3. IInv /\ IInv' /\ DurableInv /\ [Next]_vars => DurableInv'
    BY DurableNext
  <1> QED
    BY <1>1, <1>2, <1>3, CommandsInvariant, PTL DEF Spec

-----------------------------------------------------------------------------
(***************************************************************************)
(* The exit code tells the outcome                                         *)
(***************************************************************************)
\* What an import has made of the contents when it has inserted n rows.
SoFar(c, after, n) ==
    IF Chooses(c) THEN Adds(c, after, n) ELSE after = Imported(c, n)

\* The same of the arguments as they are parsed, for ids that do not stray.
Did(c, after) == StrayIds(c) \/ Done(c, after)

Might(c, after) == StrayIds(c) \/ Possible(c, after)

HasCome(c, after, n) == StrayIds(c) \/ SoFar(c, after, n)

\* A command that comes to its work, and a delete that has an id.
Accepted(c) ==
    /\ Refusal(c.name, c.args) = 0
    /\ c.name = "delete" => Len(c.args.positionals) >= 2

\* Until a flush renames its file, a reader finds what was there when the
\* process started; from then on, what the process has in memory.
DiskOK ==
    /\ dir = "absent" => path = <<>> /\ hard = {<<>>} /\ ~anchored
    /\ pc # "shell" /\ ~anchored => {} \in cmd.hard
    /\ pc = "configure" => path = <<>>
    /\ pc # "shell" =>
        /\ OnDisk \in {cmd.before, mem}
        /\ \A file \in hard : Held(file) \in cmd.hard \cup {mem}
    /\ pc \in Starting \cup {"run"} =>
        /\ OnDisk = cmd.before
        /\ \A file \in hard : Held(file) \in cmd.hard
    /\ pc \in Flushes => dirty
    /\ pc \in {"run", "leave"} /\ ~dirty => OnDisk = mem

\* The memory, as far as the command has come.
WorkOK ==
    /\ pc = "configure" => Accepted(cmd)
    /\ pc = "run" /\ row = 0 => mem = cmd.before
    /\ pc = "run" /\ row > 0 =>
           row - 1 <= Len(Lines(cmd)) /\ HasCome(cmd, mem, row - 1)
    /\ pc \in {"leave"} \cup Flushes =>
        /\ Accepted(cmd) \/ (mem = cmd.before /\ exit # 0)
        /\ Might(cmd, mem)
        /\ exit = 0 => Did(cmd, mem)
        /\ exit = 2 /\ cmd.name # "import" => mem = cmd.before
    /\ pc = "leave" /\ exit = 0 /\ dirty => mem = cmd.before
    /\ unwinding /\ exit = 0 => mem = cmd.before

OutcomeInv == DiskOK /\ WorkOK /\ ExitCodeTellsTheOutcome

\* Where no line is left out, the rows are the lines.
LEMMA NoneLeftOut ==
    ASSUME NEW f \in DOMAIN Files, Len(CsvRows(Files[f].lines)) = Len(Files[f].lines)
    PROVE  CsvRows(Files[f].lines) = Files[f].lines
  <1> DEFINE lines == Files[f].lines
             rows == {i \in DOMAIN lines : lines[i].vec # 0}
  <1>1. lines \in Seq([id : Ids, vec : Nat])
    BY CommandsAssumption
  <1>2. Len(lines) \in Nat /\ DOMAIN lines = 1 .. Len(lines)
    BY <1>1
  <1>3. IsFiniteSet(1 .. Len(lines)) /\ Cardinality(1 .. Len(lines)) = Len(lines)
    BY <1>2, FS_Interval
  <1>4. Cardinality(rows) \in Nat
    BY <1>2, <1>3, FS_Subset, FS_CardinalityType
  <1>5. CsvRows(lines) = [n \in 1 .. Cardinality(rows) |-> lines[Nth(rows, n)]]
    BY DEF CsvRows
  <1>6. rows \in SUBSET (1 .. Len(lines))
    BY <1>2
  <1> HIDE DEF rows
  <1>7. Len(CsvRows(lines)) = Cardinality(rows)
    BY <1>4, <1>5
  <1>8. rows = 1 .. Len(lines)
    BY <1>3, <1>6, <1>7, FS_Subset
  <1>9. \A i \in DOMAIN lines : lines[i].vec # 0
    BY <1>2, <1>8 DEF rows
  <1> QED
    BY <1>9, AllRows

\* An accepted row goes in under the id of its own line, or the one that is
\* counted from the start id.
LEMMA RowIdOf ==
    ASSUME NEW line \in CommandLines, NEW c, c.name = "import", c.args = Parse(line.argv),
           Accepted(c), InputRefusal(c.args) = 0, ~Chooses(c), ~StrayIds(c),
           NEW i \in 1 .. Len(Lines(c)), NEW n
    PROVE  RowId(c.args, i, n) = IF BringsIds(c) THEN Lines(c)[i].id
                                 ELSE Number(c.args, "start-id", 0) + i - 1
  <1> DEFINE file == Files[Input(c.args)]
  <1>1. Input(c.args) \in DOMAIN Files
    BY BatchOf
  <1>2. CASE Has(c.args, "start-id")
    <2>1. Number(c.args, "start-id", 0) \in Ids
      BY TypedId, ZeroIsId DEF Accepted, Reads
    <2>2. Len(Lines(c)) \in Nat
      BY BatchVecs
    <2>3. Number(c.args, "start-id", 0) + Len(Lines(c)) <= MaxId + 1
      BY <1>2, <2>1, <2>2, CommandsAssumption DEF StrayIds, Ids
    <2>4. Number(c.args, "start-id", 0) + i - 1 \in 0 .. MaxId
      BY <2>1, <2>2, <2>3, CommandsAssumption DEF Ids
    <2>5. (Number(c.args, "start-id", 0) + i - 1) % (MaxId + 1)
              = Number(c.args, "start-id", 0) + i - 1
      <3>1. MaxId \in Nat
        BY CommandsAssumption
      <3>2. \A x \in 0 .. MaxId : x % (MaxId + 1) = x
        BY <3>1
      <3> QED
        BY <2>4, <3>2
    <2> QED
      BY <1>2, <2>5 DEF RowId, BringsIds
  <1>3. CASE ~Has(c.args, "start-id")
    <2>1. BringsIds(c) /\ file.ids
      BY <1>3 DEF Chooses, BringsIds
    <2>2. Lines(c) = CsvRows(file.lines)
      BY BatchVecs
    <2>3. Len(Lines(c)) = Len(file.lines)
      BY <2>1 DEF StrayIds
    <2>4. Lines(c) = file.lines
      BY <1>1, <2>2, <2>3, NoneLeftOut
    <2>5. i \in DOMAIN file.lines
      BY <2>4, BatchVecs
    <2>6. Batch(c.args).ids = [j \in DOMAIN file.lines |-> file.lines[j].id]
      BY <2>1 DEF Batch, CsvBatch, MatrixBatch
    <2>7. Batch(c.args).ids # <<>> /\ Batch(c.args).ids[i] = file.lines[i].id
      BY <2>5, <2>6
    <2> QED
      BY <1>3, <2>1, <2>4, <2>7 DEF RowId
  <1> QED
    BY <1>2, <1>3

\* The references, row by row.
LEMMA ImportedNone ==
    ASSUME NEW c
    PROVE  Imported(c, 0) = c.before
  BY DEF Imported

LEMMA ImportedNext ==
    ASSUME NEW c, NEW n \in Nat
    PROVE  Imported(c, n + 1) =
               Imported(c, n) \cup
               {[id  |-> IF BringsIds(c) THEN Lines(c)[n + 1].id
                         ELSE Number(c.args, "start-id", 0) + (n + 1) - 1,
                 vec |-> Lines(c)[n + 1].vec]}
  <1>1. 1 .. (n + 1) = (1 .. n) \cup {n + 1}
    OBVIOUS
  <1> QED
    BY <1>1, Zenon DEF Imported

LEMMA AddsNone ==
    ASSUME NEW c
    PROVE  Adds(c, c.before, 0)
  <1>1. c.before \ c.before = {} /\ Cardinality({}) = 0
    BY FS_EmptySet
  <1>2. \A v : {e \in {} : e.vec = v} = {} /\ {i \in 1 .. 0 : Given(c)[i] = v} = {}
    OBVIOUS
  <1> QED
    BY <1>1, <1>2 DEF Adds

LEMMA AddsNothing ==
    ASSUME NEW c, NEW after, IsFiniteSet(after), Adds(c, after, 0)
    PROVE  after = c.before
  <1>1. IsFiniteSet(after \ c.before)
    BY FS_Difference
  <1>2. after \ c.before = {}
    BY <1>1, FS_EmptySet DEF Adds
  <1> QED
    BY <1>2 DEF Adds

\* One more vector, under an id that was not there.
LEMMA AddsNext ==
    ASSUME NEW c, NEW after, IsFiniteSet(after), NEW n \in Nat, Adds(c, after, n),
           NEW id, NEW v, id \notin IdsOf(after), Given(c)[n + 1] = v
    PROVE  Adds(c, after \cup {[id |-> id, vec |-> v]}, n + 1)
  <1> DEFINE e   == [id |-> id, vec |-> v]
             old == after \ c.before
             new == (after \cup {e}) \ c.before
  <1>1. e \notin after
    <2>1. \A x \in after : x.id # id
      BY DEF IdsOf
    <2> QED
      BY <2>1
  <1>2. c.before \subseteq after /\ Cardinality(old) = n
    BY DEF Adds
  <1>3. new = old \cup {e} /\ e \notin old
    BY <1>1, <1>2
  <1>4. IsFiniteSet(old)
    BY FS_Difference
  <1>5. Cardinality(new) = n + 1
    BY <1>2, <1>3, <1>4, FS_AddElement
  <1>6. ASSUME NEW w \in Vecs
        PROVE  Cardinality({x \in new : x.vec = w})
                   = Cardinality({i \in 1 .. (n + 1) : Given(c)[i] = w})
    <2> DEFINE was  == {x \in old : x.vec = w}
               from == {i \in 1 .. n : Given(c)[i] = w}
    <2>1. IsFiniteSet(was) /\ IsFiniteSet(from) /\ Cardinality(was) = Cardinality(from)
      <3>1. IsFiniteSet(was)
        BY <1>4, FS_Subset
      <3>2. IsFiniteSet(1 .. n)
        BY FS_Interval
      <3>3. IsFiniteSet(from)
        BY <3>2, FS_Subset
      <3> QED
        BY <3>1, <3>3 DEF Adds
    <2>2. CASE v = w
      <3>1. {x \in new : x.vec = w} = was \cup {e} /\ e \notin was
        BY <1>3, <2>2
      <3>2. {i \in 1 .. (n + 1) : Given(c)[i] = w} = from \cup {n + 1} /\ n + 1 \notin from
        BY <2>2
      <3>3. Cardinality(was \cup {e}) = Cardinality(was) + 1
        BY <2>1, <3>1, FS_AddElement
      <3>4. Cardinality(from \cup {n + 1}) = Cardinality(from) + 1
        BY <2>1, <3>2, FS_AddElement
      <3> QED
        BY <2>1, <3>1, <3>2, <3>3, <3>4
    <2>3. CASE v # w
      <3>1. {x \in new : x.vec = w} = was
        BY <1>3, <2>3
      <3>2. {i \in 1 .. (n + 1) : Given(c)[i] = w} = from
        BY <2>3
      <3> QED
        BY <2>1, <3>1, <3>2
    <2> QED
      BY <2>2, <2>3
  <1>7. c.before \subseteq after \cup {e}
    BY <1>2
  <1> QED
    BY <1>5, <1>6, <1>7 DEF Adds

\* The commands that only look, or that keep the contents.
Keepers == DOMAIN Reads \ {"insert", "delete", "import"}

LEMMA KeepersAreDone ==
    ASSUME NEW c, c.name \in Keepers
    PROVE  Done(c, c.before)
  BY DEF Keepers, Done, Chooses, Intended

LEMMA PossibleAtOnce ==
    ASSUME NEW c
    PROVE  Possible(c, c.before) /\ Might(c, c.before)
  BY DEF Possible, Might

LEMMA DonePossible ==
    ASSUME NEW c, NEW after, IsFiniteSet(after), Done(c, after),
           c.name # "import" \/ Len(Lines(c)) \in Nat
    PROVE  Possible(c, after)
  <1>1. CASE ~Chooses(c)
    BY <1>1 DEF Done, Possible
  <1>2. CASE Chooses(c) /\ c.name = "insert"
    <2>1. Given(c) = <<Value(c.args, "vector").n>>
      BY <1>2 DEF Given
    <2>2. Len(Given(c)) = 1 /\ 1 \in DOMAIN Given(c)
      BY <2>1
    <2> QED
      BY <1>2, <2>2 DEF Done, Possible
  <1>3. CASE Chooses(c) /\ c.name = "import"
    <2>1. Given(c) = [i \in DOMAIN Lines(c) |-> Lines(c)[i].vec]
      BY <1>3 DEF Given
    <2>2. DOMAIN Lines(c) = 1 .. Len(Lines(c))
      <3>1. CASE Input(c.args) \in DOMAIN Files
        BY <3>1, RowsWithinLines DEF Lines
      <3>2. CASE Input(c.args) \notin DOMAIN Files
        BY <3>2 DEF Lines
      <3> QED
        BY <3>1, <3>2
    <2>3. Len(Given(c)) = Len(Lines(c)) /\ DOMAIN Given(c) = 1 .. Len(Lines(c))
      BY <1>3, <2>1, <2>2
    <2>4. CASE Len(Lines(c)) = 0
      <3>1. after = c.before
        BY <1>3, <2>3, <2>4, AddsNothing DEF Done
      <3> QED
        BY <3>1, PossibleAtOnce
    <2>5. CASE Len(Lines(c)) # 0
      <3>1. Len(Given(c)) \in DOMAIN Given(c)
        BY <1>3, <2>3, <2>5
      <3> QED
        BY <1>3, <3>1 DEF Done, Possible
    <2> QED
      BY <2>4, <2>5
  <1> QED
    BY <1>1, <1>2, <1>3 DEF Chooses

LEMMA DidMight ==
    ASSUME NEW c, NEW after, IsFiniteSet(after), Did(c, after),
           c.name # "import" \/ Len(Lines(c)) \in Nat
    PROVE  Might(c, after)
  BY DonePossible DEF Did, Might

\* An import that has come to some row.
LEMMA HasComeMight ==
    ASSUME NEW c, c.name = "import", NEW after, IsFiniteSet(after),
           Len(Lines(c)) \in Nat, DOMAIN Lines(c) = 1 .. Len(Lines(c)),
           NEW n \in Nat, n <= Len(Lines(c)), HasCome(c, after, n)
    PROVE  Might(c, after)
  <1> SUFFICES ASSUME SoFar(c, after, n)
               PROVE  Possible(c, after)
    BY DEF HasCome, Might
  <1>1. CASE n = 0
    <2>1. after = c.before
      BY <1>1, AddsNothing, ImportedNone DEF SoFar
    <2> QED
      BY <2>1, PossibleAtOnce
  <1>2. CASE n # 0
    <2>1. n \in DOMAIN Lines(c)
      BY <1>2
    <2>2. n \in DOMAIN Given(c)
      BY <2>1 DEF Given
    <2> QED
      BY <2>1, <2>2 DEF SoFar, Possible
  <1> QED
    BY <1>1, <1>2

\* and to the last one.
LEMMA HasComeDid ==
    ASSUME NEW c, c.name = "import", NEW after,
           Len(Lines(c)) \in Nat, DOMAIN Lines(c) = 1 .. Len(Lines(c)),
           HasCome(c, after, Len(Lines(c)))
    PROVE  Did(c, after)
  <1> SUFFICES ASSUME SoFar(c, after, Len(Lines(c)))
               PROVE  Done(c, after)
    BY DEF HasCome, Did
  <1>1. Len(Given(c)) = Len(Lines(c))
    BY DEF Given
  <1>2. Intended(c) = Imported(c, Len(Lines(c)))
    BY DEF Intended
  <1> QED
    BY <1>1, <1>2 DEF SoFar, Done

-----------------------------------------------------------------------------
(***************************************************************************)
(* What a line says and what the process takes it for are the same, once   *)
(* the line is neither refused nor misread                                 *)
(***************************************************************************)
\* The tokens of an accepted line that are values: those that follow an option
\* and are none.  A negative number that were an option would be an unknown
\* one.
LEMMA NegativesAreValues ==
    ASSUME NEW line \in CommandLines, NEW name \in DOMAIN Reads,
           Refusal(name, Parse(line.argv)) = 0,
           NEW i \in DOMAIN line.argv, line.argv[i].form = "negative"
    PROVE  Consumed(line.argv)[i]
  <1> DEFINE argv == line.argv
             options == {j \in DOMAIN argv : argv[j].form # "word" /\ ~Consumed(argv)[j]}
  <1> SUFFICES ASSUME ~Consumed(argv)[i]
               PROVE  FALSE
    OBVIOUS
  <1>1. i \in options
    OBVIOUS
  <1>2. DOMAIN Parse(argv).options = {Expand(argv[j]) : j \in options}
    BY DEF Parse
  <1>3. Expand(argv[i]) \in DOMAIN Parse(argv).options
    BY <1>1, <1>2
  <1>4. Expand(argv[i]) \notin Reads[name] \cup GlobalOptions
    BY CommandsAssumption
  <1>5. Unused(name, Parse(argv)) # {}
    BY <1>3, <1>4 DEF Unused
  <1> QED
    BY <1>5 DEF Refusal, OptionsRefused

LEMMA ConsumedOf ==
    ASSUME NEW line \in CommandLines, NEW name \in DOMAIN Reads,
           Refusal(name, Parse(line.argv)) = 0,
           NEW i \in DOMAIN line.argv
    PROVE  Consumed(line.argv)[i] <=> ~Dashed(line.argv[i]) /\ IsBare(line.argv, i - 1)
  <1> DEFINE argv == line.argv
  <1>1. Len(argv) \in Nat /\ DOMAIN argv = 1 .. Len(argv)
    BY ArgumentsOf
  <1>2. Consumed(argv)[i] <=> ~Dashed(argv[i]) /\ TakesNext(argv, i - 1)
    BY DEF Consumed
  <1>3. ~(/\ i - 1 \in DOMAIN argv /\ argv[i - 1].form = "negative" /\ argv[i - 1].inline = None
          /\ ~IsBare(argv, i - 1 - 1))
    <2> SUFFICES ASSUME i - 1 \in DOMAIN argv, argv[i - 1].form = "negative",
                        ~IsBare(argv, i - 1 - 1)
                 PROVE  FALSE
      OBVIOUS
    <2>1. Consumed(argv)[i - 1]
      BY NegativesAreValues
    <2>2. TakesNext(argv, i - 1 - 1)
      BY <2>1 DEF Consumed
    <2>3. i - 1 - 1 \in DOMAIN argv /\ argv[i - 1 - 1].form = "negative"
      BY <2>2 DEF TakesNext
    <2>4. i - 1 - 1 + 1 = i - 1
      BY <1>1
    <2> QED
      BY <2>3, <2>4, CommandsAssumption
  <1> QED
    BY <1>2, <1>3 DEF TakesNext

\* An option that is typed is typed somewhere last.
LEMMA LastOf ==
    ASSUME NEW len \in Nat, NEW S \in SUBSET (1 .. len), S # {}
    PROVE  \E i \in S : \A j \in S : j <= i
  <1> DEFINE T == {len - i : i \in S}
  <1>1. T \subseteq Nat /\ T # {}
    <2>1. \A i \in S : len - i \in Nat
      OBVIOUS
    <2>2. PICK i \in S : TRUE
      OBVIOUS
    <2>3. len - i \in T
      OBVIOUS
    <2> QED
      BY <2>1, <2>3
  <1>2. PICK t \in T : \A u \in T : ~(<<u, t>> \in OpToRel(<, Nat))
    BY <1>1, WFMin, NatLessThanWellFounded
  <1>3. \A u \in T : ~(u < t)
    BY <1>1, <1>2 DEF OpToRel
  <1>4. PICK i \in S : t = len - i
    OBVIOUS
  <1>5. ASSUME NEW j \in S
        PROVE  j <= i
    BY <1>3, <1>4, <1>5
  <1> QED
    BY <1>5

LEMMA ReadAlike ==
    ASSUME NEW line \in CommandLines, NEW name \in DOMAIN Reads,
           Refusal(name, Parse(line.argv)) = 0
    PROVE  /\ DOMAIN Parse(line.argv).options = DOMAIN Reading(line.argv).options
           /\ \A o \in DOMAIN Parse(line.argv).options \ Flags :
                  Parse(line.argv).options[o] = Reading(line.argv).options[o]
  <1> DEFINE argv == line.argv
             C    == Consumed(argv)
             opts == {i \in DOMAIN argv : Dashed(argv[i])}
             names == {Expand(argv[i]) : i \in opts}
             last(n) == CHOOSE i \in opts :
                            /\ Expand(argv[i]) = n
                            /\ \A j \in opts : Expand(argv[j]) = n => j <= i
             pv(i) == IF argv[i].inline # None THEN argv[i].inline
                      ELSE IF i < Len(argv) /\ C[i + 1] THEN argv[i + 1].value
                      ELSE Empty
             rv(i) == CASE argv[i].inline # None -> argv[i].inline
                        [] argv[i].inline = None /\ IsValue(argv, i + 1) -> argv[i + 1].value
                        [] OTHER -> Empty
  <1>1. Len(argv) \in Nat /\ DOMAIN argv = 1 .. Len(argv) /\ \A i \in DOMAIN argv : argv[i] \in Token
    BY ArgumentsOf
  <1>2. {i \in DOMAIN argv : argv[i].form # "word" /\ ~C[i]} = opts
    <2> SUFFICES ASSUME NEW i \in DOMAIN argv
                 PROVE  argv[i].form # "word" /\ ~C[i] <=> Dashed(argv[i])
      OBVIOUS
    <2>1. argv[i].form \in {"word", "short", "long", "negative"}
      BY <1>1 DEF Token
    <2>2. argv[i].form = "negative" => C[i]
      BY NegativesAreValues
    <2>3. Dashed(argv[i]) => ~C[i]
      BY ConsumedOf
    <2> QED
      BY <2>1, <2>2, <2>3 DEF Dashed
  <1>3. Parse(argv).options = [n \in names |-> pv(last(n))]
    <2> DEFINE parsed == {i \in DOMAIN argv : argv[i].form # "word" /\ ~C[i]}
               table(S) == [n \in {Expand(argv[i]) : i \in S} |->
                                pv(CHOOSE i \in S :
                                       /\ Expand(argv[i]) = n
                                       /\ \A j \in S : Expand(argv[j]) = n => j <= i)]
    <2>1. Parse(argv).options = table(parsed)
      BY DEF Parse
    <2>2. table(opts) = [n \in names |-> pv(last(n))]
      OBVIOUS
    <2>3. parsed = opts
      BY <1>2
    <2> HIDE DEF table, parsed, opts, names, pv, last
    <2> QED
      BY <2>1, <2>2, <2>3
  <1>4. Reading(argv).options = [n \in names |-> rv(last(n))]
    BY Zenon DEF Reading
  <1>5. ASSUME NEW i \in opts, Expand(argv[i]) \notin Flags
        PROVE  pv(i) = rv(i)
    <2>1. CASE argv[i].inline # None
      BY <2>1
    <2>2. CASE argv[i].inline = None
      <3>1. i + 1 > 1 /\ (i + 1) - 1 = i /\ (i < Len(argv) <=> i + 1 \in DOMAIN argv)
        BY <1>1
      <3>2. IsBare(argv, i)
        BY <2>2 DEF IsBare
      <3>3. i + 1 \in DOMAIN argv => (C[i + 1] <=> ~Dashed(argv[i + 1]))
        BY <3>1, <3>2, ConsumedOf
      <3>4. IsValue(argv, i + 1) <=> i + 1 \in DOMAIN argv /\ ~Dashed(argv[i + 1])
        BY <1>5, <2>2, <3>1 DEF IsValue
      <3>5. i < Len(argv) /\ C[i + 1] <=> IsValue(argv, i + 1)
        BY <3>1, <3>3, <3>4
      <3> HIDE DEF C
      <3> QED
        BY <2>2, <3>5
    <2> QED
      BY <2>1, <2>2
  <1>6. ASSUME NEW n \in names
        PROVE  last(n) \in opts /\ Expand(argv[last(n)]) = n
    <2> DEFINE those == {i \in opts : Expand(argv[i]) = n}
    <2>1. those \in SUBSET (1 .. Len(argv)) /\ those # {}
      BY <1>1
    <2>2. \E i \in those : \A j \in those : j <= i
      BY <1>1, <2>1, LastOf
    <2>3. \E i \in opts : Expand(argv[i]) = n /\ \A j \in opts : Expand(argv[j]) = n => j <= i
      BY <2>2
    <2> HIDE DEF opts
    <2> QED
      BY <2>3
  <1>7. ASSUME NEW n \in names, n \notin Flags
        PROVE  pv(last(n)) = rv(last(n))
    <2>1. PICK i \in opts : i = last(n) /\ Expand(argv[i]) \notin Flags
      BY <1>6, <1>7
    <2> HIDE DEF last, pv, rv
    <2> QED
      BY <1>5, <2>1
  <1> HIDE DEF names, last, pv, rv
  <1> QED
    BY <1>3, <1>4, <1>7

\* The arguments that are counted, when there are no more than a delete looks
\* at, and the process has found as many.
LEMMA ArgumentsAlike ==
    ASSUME NEW line \in CommandLines, NEW name \in DOMAIN Reads,
           Refusal(name, Parse(line.argv)) = 0,
           Len(Parse(line.argv).positionals) >= 2,
           ~(Len(Reading(line.argv).positionals) > 2)
    PROVE  Parse(line.argv).positionals = Reading(line.argv).positionals
  <1> DEFINE argv == line.argv
             words == {i \in DOMAIN argv : argv[i].form = "word" /\ ~Consumed(argv)[i]}
             others == {i \in DOMAIN argv : ~Dashed(argv[i]) /\ ~IsValue(argv, i)}
             list(S) == [n \in 1 .. Cardinality(S) |-> argv[Nth(S, n)].value]
  <1>1. Len(argv) \in Nat /\ DOMAIN argv = 1 .. Len(argv)
    BY ArgumentsOf
  <1>2. IsFiniteSet(DOMAIN argv)
    <2>1. IsFiniteSet(1 .. Len(argv))
      BY <1>1, FS_Interval
    <2> QED
      BY <1>1, <2>1
  <1>3. Parse(argv).positionals = list(words)
    BY DEF Parse
  <1>4. Reading(argv).positionals = list(others)
    BY DEF Reading
  <1>5. words \subseteq others
    <2> SUFFICES ASSUME NEW i \in words, IsValue(argv, i)
                 PROVE  FALSE
      BY DEF Dashed
    <2>1. IsBare(argv, i - 1)
      BY <1>1 DEF IsValue, IsBare
    <2> QED
      BY <2>1, ConsumedOf DEF Dashed
  <1>6. IsFiniteSet(others) /\ Cardinality(others) \in Nat /\ Cardinality(words) \in Nat
    BY <1>2, FS_Subset, FS_CardinalityType
  <1> HIDE DEF words, others
  <1>7. Len(list(words)) = Cardinality(words) /\ Len(list(others)) = Cardinality(others)
    BY <1>6
  <1>8. Cardinality(words) >= 2 /\ Cardinality(others) <= 2
    BY <1>3, <1>4, <1>6, <1>7
  <1>9. Cardinality(words) <= Cardinality(others) /\ (Cardinality(words) = Cardinality(others) => words = others)
    BY <1>5, <1>6, FS_Subset
  <1>10. words = others
    BY <1>6, <1>8, <1>9
  <1> QED
    BY <1>3, <1>4, <1>10

\* What the references look at is the same.
LEMMA AcceptedAlike ==
    ASSUME NEW c, NEW line \in CommandLines, c.argv = line.argv, c.args = Parse(line.argv),
           c.name \in DOMAIN Reads, Accepted(c), ~Misread(Meant(c))
    PROVE  /\ ~StrayIds(c)
           /\ \A after : Done(c, after) => Done(Meant(c), after)
           /\ \A after : Possible(c, after) => Possible(Meant(c), after)
  <1> DEFINE m == Meant(c)
  <1>1. m.name = c.name /\ m.before = c.before /\ m.args = Reading(line.argv)
    BY DEF Meant
  <1>2. /\ DOMAIN c.args.options = DOMAIN m.args.options
        /\ \A o \in DOMAIN c.args.options \ Flags : c.args.options[o] = m.args.options[o]
    BY <1>1, ReadAlike DEF Accepted
  <1>3. /\ \A o : Has(c.args, o) <=> Has(m.args, o)
        /\ \A o : o \notin Flags => Value(c.args, o) = Value(m.args, o)
    BY <1>2 DEF Has, Value
  <1>4. /\ Value(c.args, "id") = Value(m.args, "id")
        /\ Value(c.args, "start-id") = Value(m.args, "start-id")
        /\ Value(c.args, "vector") = Value(m.args, "vector")
        /\ Value(c.args, "input") = Value(m.args, "input")
    BY <1>3 DEF Flags
  <1>5. /\ Number(c.args, "id", 0) = Number(m.args, "id", 0)
        /\ Number(c.args, "start-id", 0) = Number(m.args, "start-id", 0)
        /\ Input(c.args) = Input(m.args)
    BY <1>4 DEF Number, Input
  <1>6. c.name = "delete" => c.args.positionals = m.args.positionals
    <2> SUFFICES ASSUME c.name = "delete"
                 PROVE  c.args.positionals = m.args.positionals
      OBVIOUS
    <2>1. ~(Len(m.args.positionals) > 2)
      BY <1>1 DEF Misread, Looks
    <2> QED
      BY <1>1, <2>1, ArgumentsAlike DEF Accepted
  <1> HIDE DEF m
  <1>7. Lines(c) = Lines(m) /\ (BringsIds(c) <=> BringsIds(m)) /\ (Chooses(c) <=> Chooses(m))
    BY <1>1, <1>3, <1>5 DEF Lines, BringsIds, Chooses
  <1>8. StrayIds(c) <=> StrayIds(m)
    BY <1>1, <1>3, <1>4, <1>5, <1>7 DEF StrayIds
  <1>9. ~StrayIds(c)
    BY <1>8 DEF Misread, m
  <1>10. \A n : Imported(c, n) = Imported(m, n)
    BY <1>1, <1>5, <1>7 DEF Imported
  <1>11. Given(c) = Given(m)
    BY <1>1, <1>4, <1>7 DEF Given
  <1>12. \A after, n : Adds(c, after, n) <=> Adds(m, after, n)
    BY <1>1, <1>11 DEF Adds
  <1>13. Intended(c) = Intended(m)
    <2>1. c.name = "delete" => IdArgument(c.args) = IdArgument(m.args)
      BY <1>6 DEF IdArgument
    <2> QED
      BY <1>1, <1>3, <1>4, <1>5, <1>6, <1>7, <1>10, <2>1 DEF Intended
  <1>14. \A after : Done(c, after) => Done(m, after)
    BY <1>7, <1>11, <1>12, <1>13 DEF Done
  <1>15. \A after : Possible(c, after) => Possible(m, after)
    BY <1>1, <1>7, <1>10, <1>11, <1>12, <1>13 DEF Possible
  <1> QED
    BY <1>9, <1>14, <1>15 DEF m

-----------------------------------------------------------------------------
(***************************************************************************)
(* What is told of a process that is over                                  *)
(***************************************************************************)
\* One that has left everything as it was.
LEMMA ToldBefore ==
    ASSUME NEW how, ran' = [cmd |-> cmd, how |-> how, after |-> cmd.before],
           how = 0 => cmd.name \in Keepers
    PROVE  ExitCodeTellsTheOutcome'
  <1> DEFINE m == Meant(cmd)
  <1>1. ran'.cmd = cmd /\ ran'.how = how /\ ran'.after = cmd.before
    OBVIOUS
  <1>2. m.name = cmd.name /\ m.before = cmd.before
    BY DEF Meant
  <1>3. how = 0 => Done(m, m.before)
    BY <1>2, KeepersAreDone
  <1>4. Possible(m, m.before)
    BY PossibleAtOnce
  <1> QED
    BY <1>1, <1>2, <1>3, <1>4 DEF ExitCodeTellsTheOutcome

\* One that has lost its power.
LEMMA ToldHard ==
    ASSUME NEW after \in cmd.hard, ran' = [cmd |-> cmd, how |-> 10, after |-> after]
    PROVE  ExitCodeTellsTheOutcome'
  <1> DEFINE m == Meant(cmd)
  <1>1. ran'.cmd = cmd /\ ran'.how = 10 /\ ran'.after = after
    OBVIOUS
  <1>2. m.hard = cmd.hard
    BY DEF Meant
  <1> QED
    BY <1>1, <1>2 DEF ExitCodeTellsTheOutcome

\* One that has done some of its work.
LEMMA Told ==
    ASSUME IInv, pc # "shell", NEW how, NEW after,
           ran' = [cmd |-> cmd, how |-> how, after |-> after],
           Accepted(cmd) \/ (after = cmd.before /\ how # 0),
           how = 0 => Did(cmd, after),
           how = 2 /\ cmd.name # "import" => after = cmd.before,
           Might(cmd, after)
    PROVE  ExitCodeTellsTheOutcome'
  <1>1. CASE after = cmd.before /\ how # 0
    BY <1>1, ToldBefore
  <1>2. CASE Accepted(cmd)
    <2> DEFINE m == Meant(cmd)
    <2>1. ran'.cmd = cmd /\ ran'.how = how /\ ran'.after = after
      OBVIOUS
    <2>2. m.name = cmd.name /\ m.before = cmd.before
      BY DEF Meant
    <2>3. PICK line \in CommandLines : cmd.argv = line.argv /\ cmd.args = Parse(line.argv)
      BY DEF IInv, ProcessOK
    <2>4. cmd.name \in DOMAIN Reads
      BY DEF IInv, ProcessOK
    <2>5. PICK c : c = cmd
      OBVIOUS
    <2>6. ~Misread(Meant(c)) => /\ ~StrayIds(c)
                                /\ Done(c, after) => Done(Meant(c), after)
                                /\ Possible(c, after) => Possible(Meant(c), after)
      BY <1>2, <2>3, <2>4, <2>5, AcceptedAlike
    <2>7. ~Misread(m) => (how = 0 => Done(m, after)) /\ Possible(m, after)
      BY <2>5, <2>6 DEF Did, Might
    <2> HIDE DEF m
    <2>8. how = 2 /\ m.name # "import" => after = m.before
      BY <2>2
    <2> QED
      BY <2>1, <2>7, <2>8 DEF ExitCodeTellsTheOutcome, m
  <1> QED
    BY <1>1, <1>2

\* The shell is left with files, and nothing under way.
LEMMA ShellKeeps ==
    ASSUME pc' = "shell", ~unwinding',
           dir' = "absent" => path' = <<>> /\ hard' = {<<>>} /\ ~anchored',
           ExitCodeTellsTheOutcome'
    PROVE  OutcomeInv'
  BY DEF OutcomeInv, DiskOK, WorkOK, Starting, Flushes

LEMMA QuitTells ==
    ASSUME IInv, OutcomeInv, pc \in Starting, NEW code, Quit(code), code = 0 => cmd.name \in Keepers
    PROVE  OutcomeInv'
  <1>1. /\ pc' = "shell" /\ ~unwinding' /\ UNCHANGED <<path, hard, dir, anchored>>
        /\ ran' = [cmd |-> cmd, how |-> code, after |-> OnDisk]
    BY DEF Quit, Idle, fileVars, kept
  <1>2. OnDisk = cmd.before
    BY DEF OutcomeInv, DiskOK
  <1>3. ExitCodeTellsTheOutcome'
    BY <1>1, <1>2, ToldBefore
  <1> QED
    BY <1>1, <1>3, ShellKeeps DEF OutcomeInv, DiskOK

\* From the work to the flush, or to the way out.
LEMMA LateKeeps ==
    ASSUME OutcomeInv, pc = "run", dir = "ready", UNCHANGED <<path, hard, dir, anchored, cmd, ran>>,
           ~unwinding',
           pc' \in {"leave", "tmp"}, pc' = "tmp" => dirty',
           Accepted(cmd) \/ (mem' = cmd.before /\ exit' # 0),
           Might(cmd, mem'),
           exit' = 0 => Did(cmd, mem'),
           exit' = 2 /\ cmd.name # "import" => mem' = cmd.before,
           pc' = "leave" /\ (exit' = 0 \/ ~dirty') => mem' = cmd.before
    PROVE  OutcomeInv'
  <1>1. OnDisk' = cmd.before /\ \A file \in hard' : Held(file) \in cmd.hard
    BY DEF OutcomeInv, DiskOK, OnDisk
  <1>2. DiskOK'
    BY <1>1 DEF OutcomeInv, DiskOK, Starting, Flushes
  <1>3. WorkOK'
    BY DEF WorkOK, Flushes
  <1>4. ExitCodeTellsTheOutcome'
    BY DEF OutcomeInv, ExitCodeTellsTheOutcome
  <1> QED
    BY <1>2, <1>3, <1>4 DEF OutcomeInv

\* What holds of a handler at work.
LEMMA RunFacts ==
    ASSUME IInv, OutcomeInv, pc = "run"
    PROVE  /\ dir = "ready" /\ ~unwinding /\ OnDisk = cmd.before /\ IsFiniteSet(mem)
           /\ cmd.name # "delete" => Accepted(cmd)
           /\ cmd.name = "delete" /\ Len(cmd.args.positionals) >= 2 => Accepted(cmd)
           /\ ~dirty => mem = cmd.before
           /\ row = 0 \/ cmd.name # "import" => mem = cmd.before
           /\ row > 0 => /\ InputRefusal(cmd.args) = 0 /\ cmd.name = "import"
                         /\ row - 1 <= Len(Lines(cmd)) /\ HasCome(cmd, mem, row - 1)
           /\ row \in Nat
  <1>1. /\ dir = "ready" /\ ~unwinding /\ OnDisk = cmd.before /\ IsFiniteSet(mem)
        /\ Refused = 0 /\ row \in Nat
        /\ ~dirty => mem = cmd.before
        /\ row > 0 => InputRefusal(cmd.args) = 0 /\ cmd.name = "import"
    BY DEF IInv, ProcessOK, OutcomeInv, DiskOK, Contents
  <1>2. /\ row = 0 => mem = cmd.before
        /\ row > 0 => row - 1 <= Len(Lines(cmd)) /\ HasCome(cmd, mem, row - 1)
    BY DEF OutcomeInv, WorkOK
  <1> QED
    BY <1>1, <1>2 DEF Accepted, Refused

\* A handler that leaves before it has inserted anything.
LEMMA LeaveTells ==
    ASSUME IInv, OutcomeInv, pc = "run", mem = cmd.before, UNCHANGED memory, NEW code, Leave(code),
           code = 0 => cmd.name \in Keepers
    PROVE  OutcomeInv'
  <1>1. /\ pc' = "leave" /\ exit' = code /\ mem' = mem
        /\ UNCHANGED <<path, hard, dir, anchored, cmd, ran, unwinding>>
    BY DEF Leave, memory, fileVars, kept
  <1>2. dir = "ready" /\ ~unwinding
    BY RunFacts
  <1>3. Might(cmd, mem')
    BY <1>1, PossibleAtOnce
  <1>4. code = 0 => Did(cmd, mem')
    BY <1>1, KeepersAreDone DEF Did
  <1>5. Accepted(cmd) \/ (mem' = cmd.before /\ exit' # 0)
    BY <1>1, RunFacts DEF Keepers
  <1> QED
    BY <1>1, <1>2, <1>3, <1>4, <1>5, LateKeeps

LEMMA InsertTells ==
    ASSUME IInv, OutcomeInv, Insert
    PROVE  OutcomeInv'
  <1> DEFINE id == IF Has(cmd.args, "id") THEN Number(cmd.args, "id", 0) ELSE next
             v  == Value(cmd.args, "vector").n
  <1>1. pc = "run" /\ cmd.name = "insert" /\ mem = cmd.before
    BY RunFacts DEF Insert, Running
  <1>2. CASE \E code \in {1, 2} : Leave(code) /\ UNCHANGED memory
    BY <1>1, <1>2, LeaveTells
  <1>3. CASE ~ \E code \in {1, 2} : Leave(code) /\ UNCHANGED memory
    <2>1. /\ id \notin IdsOf(mem) /\ v \in Vecs
          /\ mem' = mem \cup {[id |-> id, vec |-> v]} /\ dirty' = TRUE
          /\ pc' = "tmp" /\ exit' = 0
          /\ UNCHANGED <<path, hard, dir, anchored, cmd, ran, unwinding>>
      BY <1>3 DEF Insert, InsertEntry, Flushing, fileVars, kept
    <2>2. Done(cmd, mem')
      <3>1. CASE Has(cmd.args, "id")
        BY <1>1, <2>1, <3>1 DEF Done, Chooses, Intended
      <3>2. CASE ~Has(cmd.args, "id")
        <4>1. Given(cmd) = <<v>>
          BY <1>1 DEF Given
        <4>2. Len(Given(cmd)) = 1 /\ Given(cmd)[0 + 1] = v
          BY <4>1
        <4>3. PICK c : c = cmd
          OBVIOUS
        <4>4. PICK old, i, w : old = mem /\ i = id /\ w = v
          OBVIOUS
        <4> HIDE DEF id, v
        <4>5. Adds(c, old, 0) /\ IsFiniteSet(old) /\ i \notin IdsOf(old) /\ Given(c)[0 + 1] = w
          BY <1>1, <2>1, <4>2, <4>3, <4>4, AddsNone, RunFacts
        <4>6. Adds(c, old \cup {[id |-> i, vec |-> w]}, 0 + 1)
          BY <4>5, AddsNext
        <4>7. Adds(cmd, mem', Len(Given(cmd)))
          BY <2>1, <4>2, <4>3, <4>4, <4>6
        <4> QED
          BY <1>1, <3>2, <4>7 DEF Done, Chooses
      <3> QED
        BY <3>1, <3>2
    <2>3. IsFiniteSet(mem')
      BY <1>1, <2>1, RunFacts, FS_AddElement
    <2>4. Did(cmd, mem') /\ Might(cmd, mem')
      <3>1. PICK new : new = mem'
        OBVIOUS
      <3> QED
        BY <1>1, <2>2, <2>3, <3>1, DidMight DEF Did
    <2>5. Accepted(cmd) /\ dir = "ready" /\ ~unwinding
      BY <1>1, RunFacts
    <2> QED
      BY <1>1, <2>1, <2>4, <2>5, LateKeeps
  <1> QED
    BY <1>2, <1>3

LEMMA DeleteTells ==
    ASSUME IInv, OutcomeInv, Delete
    PROVE  OutcomeInv'
  <1>1. pc = "run" /\ cmd.name = "delete" /\ mem = cmd.before
    BY RunFacts DEF Delete, Running
  <1>2. CASE Leave(2) /\ UNCHANGED memory
    BY <1>1, <1>2, LeaveTells
  <1>3. CASE ~(Leave(2) /\ UNCHANGED memory)
    <2> DEFINE id == IdArgument(cmd.args).n
    <2>1. /\ mem' = {e \in mem : e.id # id}
          /\ id \in IdsOf(mem) => dirty'
          /\ exit' = IF id \in IdsOf(mem) THEN 0 ELSE 1
          /\ pc' = IF dirty' THEN "tmp" ELSE "leave"
          /\ ~(Len(cmd.args.positionals) < 2)
          /\ UNCHANGED <<path, hard, dir, anchored, cmd, ran, unwinding>>
      BY <1>3 DEF Delete, Flushing, fileVars, kept
    <2>2. id \notin IdsOf(mem) => mem' = cmd.before
      BY <1>1, <2>1 DEF IdsOf
    <2>9. Len(cmd.args.positionals) > 1 /\ Len(cmd.args.positionals) >= 2
      <3>1. PICK line \in CommandLines : cmd.args = Parse(line.argv)
        BY <1>1, RunningOf
      <3>2. Len(cmd.args.positionals) \in Nat
        BY <3>1, PositionalsCounted
      <3> QED
        BY <2>1, <3>2
    <2>3. Done(cmd, mem')
      <3>1. ~Chooses(cmd)
        BY <1>1 DEF Chooses
      <3>3. Intended(cmd) = {e \in cmd.before : e.id # id}
        BY <1>1, <2>9 DEF Intended
      <3> QED
        BY <1>1, <2>1, <3>1, <3>3 DEF Done
    <2>4. IsFiniteSet(mem')
      BY <1>1, <2>1, RunFacts, FS_Subset
    <2>5. Did(cmd, mem') /\ Might(cmd, mem')
      <3>1. PICK new : new = mem'
        OBVIOUS
      <3> QED
        BY <1>1, <2>3, <2>4, <3>1, DidMight DEF Did
    <2>6. pc' \in {"leave", "tmp"} /\ (pc' = "tmp" => dirty')
      BY <2>1
    <2>7. pc' = "leave" => mem' = cmd.before
      BY <2>1, <2>2
    <2>8. exit' # 2
      BY <2>1
    <2> QED
      <3>1. Accepted(cmd) /\ dir = "ready" /\ ~unwinding
        BY <1>1, <2>9, RunFacts
      <3> QED
        BY <1>1, <2>1, <2>5, <2>6, <2>7, <2>8, <3>1, LateKeeps
  <1> QED
    BY <1>2, <1>3

LEMMA ReadInputTells ==
    ASSUME IInv, OutcomeInv, ReadInput
    PROVE  OutcomeInv'
  <1>1. pc = "run" /\ cmd.name = "import" /\ row = 0 /\ mem = cmd.before
    BY RunFacts DEF ReadInput, Running
  <1>2. CASE InputRefusal(cmd.args) # 0
    <2>1. PICK code : code = InputRefusal(cmd.args)
      OBVIOUS
    <2>2. Leave(code) /\ code # 0 /\ UNCHANGED memory
      BY <1>2, <2>1 DEF ReadInput
    <2> QED
      BY <1>1, <2>2, LeaveTells
  <1>3. CASE InputRefusal(cmd.args) = 0
    <2>1. /\ pc' = "run" /\ row' = 1 /\ ~unwinding'
          /\ UNCHANGED <<path, hard, dir, anchored, cmd, mem, dirty, ran>>
      BY <1>1, <1>3, RunFacts DEF ReadInput, fileVars, kept
    <2>2. PICK c, old : c = cmd /\ old = mem
      OBVIOUS
    <2>3. HasCome(c, old, 0) /\ Len(Lines(c)) \in Nat
      BY <1>1, <1>3, <2>2, AddsNone, ImportedNone, BatchVecs DEF SoFar, HasCome
    <2>4. HasCome(cmd', mem', row' - 1) /\ row' - 1 <= Len(Lines(cmd'))
      BY <2>1, <2>2, <2>3
    <2>5. WorkOK'
      BY <2>1, <2>4 DEF WorkOK, Flushes
    <2>6. DiskOK'
      BY <1>1, <2>1 DEF OutcomeInv, DiskOK, Starting, Flushes, OnDisk
    <2>7. ExitCodeTellsTheOutcome'
      BY <2>1 DEF OutcomeInv, ExitCodeTellsTheOutcome
    <2> QED
      BY <2>5, <2>6, <2>7 DEF OutcomeInv
  <1> QED
    BY <1>2, <1>3

\* One more row of an import.
LEMMA HasComeNext ==
    ASSUME NEW line \in CommandLines, NEW c, c.name = "import", c.args = Parse(line.argv),
           Accepted(c), InputRefusal(c.args) = 0,
           NEW after, IsFiniteSet(after), NEW n \in Nat, n + 1 <= Len(Lines(c)),
           HasCome(c, after, n), NEW next0,
           RowId(c.args, n + 1, next0) \notin IdsOf(after)
    PROVE  HasCome(c, after \cup {[id  |-> RowId(c.args, n + 1, next0),
                                  vec |-> Batch(c.args).vecs[n + 1]]}, n + 1)
  <1> SUFFICES ASSUME ~StrayIds(c), SoFar(c, after, n)
               PROVE  SoFar(c, after \cup {[id  |-> RowId(c.args, n + 1, next0),
                                           vec |-> Batch(c.args).vecs[n + 1]]}, n + 1)
    BY DEF HasCome
  <1>1. /\ Len(Lines(c)) \in Nat /\ DOMAIN Lines(c) = 1 .. Len(Lines(c))
        /\ n + 1 \in 1 .. Len(Lines(c))
        /\ Batch(c.args).vecs[n + 1] = Lines(c)[n + 1].vec
    <2>1. /\ Len(Lines(c)) \in Nat /\ DOMAIN Lines(c) = 1 .. Len(Lines(c))
          /\ \A i \in 1 .. Len(Lines(c)) : Batch(c.args).vecs[i] = Lines(c)[i].vec
      BY BatchVecs
    <2>2. n + 1 \in 1 .. Len(Lines(c))
      BY <2>1
    <2> QED
      BY <2>1, <2>2
  <1>2. CASE Chooses(c)
    <2>1. Given(c)[n + 1] = Lines(c)[n + 1].vec
      BY <1>1 DEF Given
    <2>2. Adds(c, after, n)
      BY <1>2 DEF SoFar
    <2>3. PICK id, v : id = RowId(c.args, n + 1, next0) /\ v = Batch(c.args).vecs[n + 1]
      OBVIOUS
    <2>4. id \notin IdsOf(after) /\ Given(c)[n + 1] = v
      BY <1>1, <2>1, <2>3
    <2>5. Adds(c, after \cup {[id |-> id, vec |-> v]}, n + 1)
      BY <2>2, <2>4, AddsNext
    <2> QED
      BY <1>2, <2>3, <2>5 DEF SoFar
  <1>3. CASE ~Chooses(c)
    <2>1. after = Imported(c, n)
      BY <1>3 DEF SoFar
    <2>2. PICK i \in 1 .. Len(Lines(c)) : i = n + 1
      BY <1>1
    <2>3. RowId(c.args, i, next0) = IF BringsIds(c) THEN Lines(c)[i].id
                                    ELSE Number(c.args, "start-id", 0) + i - 1
      BY <1>3, RowIdOf
    <2>4. Imported(c, n + 1) =
              Imported(c, n) \cup
              {[id  |-> IF BringsIds(c) THEN Lines(c)[n + 1].id
                        ELSE Number(c.args, "start-id", 0) + (n + 1) - 1,
                vec |-> Lines(c)[n + 1].vec]}
      BY ImportedNext
    <2>5. Imported(c, i) = Imported(c, n) \cup {[id  |-> RowId(c.args, i, next0),
                                                 vec |-> Batch(c.args).vecs[i]]}
      BY <1>1, <2>2, <2>3, <2>4
    <2> QED
      BY <1>3, <2>1, <2>2, <2>5 DEF SoFar
  <1> QED
    BY <1>2, <1>3

LEMMA ImportRowTells ==
    ASSUME IInv, OutcomeInv, ImportRow
    PROVE  OutcomeInv'
  <1>1. /\ pc = "run" /\ cmd.name = "import"
        /\ row > 0 /\ row <= Len(Batch(cmd.args).vecs)
    BY DEF ImportRow, Running
  <1>2. PICK c, old, nxt : c = cmd /\ old = mem /\ nxt = next
    OBVIOUS
  <1>3. PICK n \in Nat : row = n + 1
    <2>1. row \in Nat
      BY <1>1, RunFacts
    <2>2. row - 1 \in Nat /\ row = (row - 1) + 1
      BY <1>1, <2>1
    <2> QED
      BY <2>2
  <1>4. /\ c.name = "import" /\ InputRefusal(c.args) = 0 /\ IsFiniteSet(old)
        /\ HasCome(c, old, n) /\ Accepted(c)
    <2>1. row - 1 = n
      BY <1>3
    <2> QED
      BY <1>1, <1>2, <2>1, RunFacts
  <1>5. /\ Len(Lines(c)) \in Nat /\ DOMAIN Lines(c) = 1 .. Len(Lines(c))
        /\ n + 1 <= Len(Lines(c))
    BY <1>1, <1>2, <1>3, <1>4, BatchVecs
  <1>6. CASE \E code \in {1, 2} : Leave(code) /\ UNCHANGED memory
    <2>1. PICK code \in {1, 2} : Leave(code)
      BY <1>6
    <2>2. /\ pc' = "leave" /\ exit' = code /\ mem' = mem /\ dirty' = dirty
          /\ UNCHANGED <<path, hard, dir, anchored, cmd, ran, unwinding>>
      BY <1>6, <2>1 DEF Leave, memory, fileVars, kept
    <2>3. Might(c, old)
      BY <1>4, <1>5, HasComeMight
    <2>4. Might(cmd, mem') /\ Accepted(cmd)
      BY <1>2, <1>4, <2>2, <2>3
    <2>5. dir = "ready" /\ ~unwinding /\ (~dirty => mem = cmd.before)
      BY <1>1, RunFacts
    <2> QED
      BY <1>1, <2>2, <2>4, <2>5, LateKeeps
  <1>7. CASE ~ \E code \in {1, 2} : Leave(code) /\ UNCHANGED memory
    <2> DEFINE id == RowId(cmd.args, row, next)
               v  == Batch(cmd.args).vecs[row]
    <2>1. /\ id \notin IdsOf(mem)
          /\ mem' = mem \cup {[id |-> id, vec |-> v]} /\ dirty' = TRUE /\ row' = row + 1
          /\ UNCHANGED <<path, hard, dir, anchored, pc, cmd, ran, unwinding>>
      BY <1>7 DEF ImportRow, InsertEntry, fileVars, kept
    <2>2. RowId(c.args, n + 1, nxt) \notin IdsOf(old)
      BY <1>2, <1>3, <2>1
    <2>3. HasCome(c, old \cup {[id  |-> RowId(c.args, n + 1, nxt),
                                vec |-> Batch(c.args).vecs[n + 1]]}, n + 1)
      <3>1. PICK line \in CommandLines : c.args = Parse(line.argv)
        BY <1>1, <1>2, RunningOf
      <3> QED
        BY <1>4, <1>5, <2>2, <3>1, HasComeNext
    <2>4. row' - 1 = n + 1
      BY <1>3, <2>1
    <2>5. HasCome(cmd', mem', row' - 1) /\ row' - 1 <= Len(Lines(cmd'))
      BY <1>2, <1>3, <1>5, <2>1, <2>3, <2>4
    <2>6. row' # 0 /\ pc' = "run" /\ ~unwinding'
      BY <1>1, <1>3, <2>1, RunFacts
    <2>7. WorkOK'
      BY <2>5, <2>6 DEF WorkOK, Flushes
    <2>8. DiskOK'
      BY <1>1, <2>1 DEF OutcomeInv, DiskOK, Starting, Flushes, OnDisk
    <2>9. ExitCodeTellsTheOutcome'
      BY <2>1 DEF OutcomeInv, ExitCodeTellsTheOutcome
    <2> QED
      BY <2>7, <2>8, <2>9 DEF OutcomeInv
  <1> QED
    BY <1>6, <1>7

LEMMA ImportEndsTells ==
    ASSUME IInv, OutcomeInv, ImportEnds
    PROVE  OutcomeInv'
  <1>1. /\ pc = "run" /\ cmd.name = "import" /\ row > 0 /\ row > Len(Batch(cmd.args).vecs)
        /\ exit' = 0 /\ pc' = IF dirty THEN "tmp" ELSE "leave"
        /\ UNCHANGED <<path, hard, dir, anchored, cmd, ran, unwinding, mem, dirty>>
    BY DEF ImportEnds, Running, Flushing, memory, fileVars, kept
  <1>2. PICK c, old, n : c = cmd /\ old = mem /\ n = row - 1
    OBVIOUS
  <1>3. /\ c.name = "import" /\ InputRefusal(c.args) = 0 /\ IsFiniteSet(old)
        /\ n <= Len(Lines(c)) /\ HasCome(c, old, n) /\ Accepted(c)
    BY <1>1, <1>2, RunFacts
  <1>4. /\ Len(Lines(c)) \in Nat /\ DOMAIN Lines(c) = 1 .. Len(Lines(c))
        /\ Len(Batch(c.args).vecs) = Len(Lines(c))
    BY <1>3, BatchVecs
  <1>5. row \in Nat
    BY <1>1, RunFacts
  <1>6. n = Len(Lines(c))
    BY <1>1, <1>2, <1>3, <1>4, <1>5
  <1>7. HasCome(c, old, Len(Lines(c)))
    BY <1>3, <1>6
  <1>8. Did(c, old)
    BY <1>3, <1>4, <1>7, HasComeDid
  <1>9. Might(c, old)
    BY <1>3, <1>4, <1>8, DidMight
  <1>10. Did(cmd, mem') /\ Might(cmd, mem') /\ Accepted(cmd)
    BY <1>1, <1>2, <1>3, <1>8, <1>9
  <1>11. pc' \in {"leave", "tmp"} /\ (pc' = "tmp" => dirty') /\ (pc' = "leave" => ~dirty)
    BY <1>1
  <1>12. pc' = "leave" => mem' = cmd.before
    BY <1>1, <1>11, RunFacts
  <1>13. exit' # 2
    BY <1>1
  <1> QED
    <2>1. dir = "ready" /\ ~unwinding
      BY <1>1, RunFacts
    <2> QED
      BY <1>1, <1>10, <1>11, <1>12, <1>13, <2>1, LateKeeps

LEMMA MaintainTells ==
    ASSUME IInv, OutcomeInv, Maintain
    PROVE  OutcomeInv'
  <1>1. /\ pc = "run" /\ cmd.name \in Keepers /\ cmd.name \notin {"import", "delete"}
    BY DEF Maintain, Keepers, Reads
  <1>2. mem = cmd.before /\ dir = "ready" /\ ~unwinding /\ Accepted(cmd)
    BY <1>1, RunFacts
  <1>3. CASE Leave(0) /\ UNCHANGED memory
    BY <1>1, <1>2, <1>3, LeaveTells
  <1>4. CASE dirty' = TRUE /\ Flushing(TRUE, 0)
             /\ UNCHANGED <<fileVars, dir, kept, cmd, mem, next, row, unwinding, faults, ran>>
    <2>1. /\ dirty' /\ exit' = 0 /\ pc' = "tmp"
          /\ UNCHANGED <<path, hard, dir, anchored, cmd, ran, unwinding, mem>>
      BY <1>4 DEF Flushing, fileVars, kept
    <2>2. Did(cmd, mem') /\ Might(cmd, mem')
      BY <1>1, <1>2, <2>1, KeepersAreDone, PossibleAtOnce DEF Did
    <2> QED
      BY <1>1, <1>2, <2>1, <2>2, LateKeeps
  <1> QED
    BY <1>3, <1>4 DEF Maintain

LEMMA ReadTells ==
    ASSUME IInv, OutcomeInv, Read
    PROVE  OutcomeInv'
  <1>1. /\ pc = "run" /\ UNCHANGED memory /\ cmd.name \in Keepers /\ cmd.name # "import"
        /\ \E code \in 0 .. 3 : Leave(code)
    BY ReadLeaves DEF Keepers, Reads
  <1>2. mem = cmd.before
    BY <1>1, RunFacts
  <1> QED
    BY <1>1, <1>2, LeaveTells

LEMMA DispatchTells ==
    ASSUME IInv, OutcomeInv, NEW line \in CommandLines, Dispatch(line)
    PROVE  OutcomeInv'
  <1>1. /\ pc' \in {"create", "generate", "open"}
        /\ UNCHANGED <<path, hard, dir, anchored, unwinding>> /\ ~unwinding
        /\ cmd'.before = OnDisk /\ cmd'.hard = Findable
        /\ ran' = NeverRan
    BY DEF Dispatch, fileVars, kept, IInv, ProcessOK
  <1>5. (~anchored => {} \in Findable) /\ \A file \in hard : Held(file) \in Findable
    BY DEF Findable
  <1>2. DiskOK'
    BY <1>1, <1>5 DEF OutcomeInv, DiskOK, Starting, Flushes, OnDisk
  <1>3. WorkOK'
    BY <1>1 DEF WorkOK, Flushes
  <1>4. ExitCodeTellsTheOutcome'
    BY <1>1 DEF ExitCodeTellsTheOutcome, Meant, NeverRan, NoCommand
  <1> QED
    BY <1>2, <1>3, <1>4 DEF OutcomeInv

LEMMA CreateTells ==
    ASSUME IInv, OutcomeInv, Create
    PROVE  OutcomeInv'
  <1>1. pc = "create" /\ pc \in Starting
    BY DEF Create, Starting
  <1>2. CASE Quit(2)
    BY <1>1, <1>2, QuitTells
  <1>3. CASE ~Quit(2)
    <2>1. /\ dir = "absent" /\ dir' = "bare" /\ pc' = "configure"
          /\ UNCHANGED <<path, hard, anchored, cmd, mem, unwinding, ran>> /\ ~unwinding
          /\ Refused = 0 /\ cmd.name = "create"
      BY <1>1, <1>3 DEF Create, CreateRefused, fileVars, kept, memory, IInv, ProcessOK
    <2>2. DiskOK'
      BY <1>1, <2>1 DEF OutcomeInv, DiskOK, Starting, Flushes, OnDisk
    <2>3. WorkOK'
      <3>1. Accepted(cmd)
        BY <2>1 DEF Accepted, Refused
      <3> QED
        BY <2>1, <3>1 DEF WorkOK, Flushes
    <2>4. ExitCodeTellsTheOutcome'
      BY <2>1 DEF OutcomeInv, ExitCodeTellsTheOutcome
    <2> QED
      BY <2>2, <2>3, <2>4 DEF OutcomeInv
  <1> QED
    BY <1>2, <1>3

LEMMA ConfigureTells ==
    ASSUME IInv, OutcomeInv, Configure
    PROVE  OutcomeInv'
  <1>1. /\ pc = "configure" /\ pc' = "tmp" /\ dir' = "ready" /\ dirty' = TRUE
        /\ UNCHANGED <<path, hard, anchored, cmd, mem, exit, unwinding, ran>> /\ ~unwinding
        /\ mem = {} /\ exit = 0 /\ cmd.name = "create"
    BY DEF Configure, fileVars, IInv, ProcessOK, Starting
  <1>2. cmd.before = {}
    <2>1. path = <<>> /\ OnDisk = cmd.before
      BY <1>1 DEF OutcomeInv, DiskOK, Starting
    <2> QED
      BY <2>1, KeptHolds DEF OnDisk, Kept
  <1>3. Did(cmd, mem) /\ Might(cmd, mem) /\ Accepted(cmd)
    <2>2. Accepted(cmd)
      BY <1>1 DEF OutcomeInv, WorkOK
    <2>1. cmd.name \in Keepers
      BY <1>1 DEF Keepers, Reads
    <2> QED
      BY <1>1, <1>2, <2>1, <2>2, KeepersAreDone, PossibleAtOnce DEF Did
  <1>4. DiskOK'
    BY <1>1 DEF OutcomeInv, DiskOK, Starting, Flushes, OnDisk
  <1>5. WorkOK'
    BY <1>1, <1>3 DEF WorkOK, Flushes
  <1>6. ExitCodeTellsTheOutcome'
    BY <1>1 DEF OutcomeInv, ExitCodeTellsTheOutcome
  <1> QED
    BY <1>4, <1>5, <1>6 DEF OutcomeInv

LEMMA OpenTells ==
    ASSUME IInv, OutcomeInv, Open
    PROVE  OutcomeInv'
  <1>1. pc = "open" /\ pc \in Starting
    BY DEF Open, Starting
  <1>2. CASE \E code \in {1, 2} : Quit(code)
    BY <1>1, <1>2, QuitTells
  <1>3. CASE ~ \E code \in {1, 2} : Quit(code)
    <2>1. /\ dir = "ready" /\ mem' = OnDisk /\ row' = 0 /\ exit' = Refused
          /\ pc' = IF Refused # 0 THEN "leave" ELSE "run"
          /\ UNCHANGED <<path, hard, dir, anchored, cmd, unwinding, ran>> /\ ~unwinding
      BY <1>1, <1>3 DEF Open, fileVars, kept, IInv, ProcessOK, Starting
    <2>2. OnDisk = cmd.before /\ \A file \in hard : Held(file) \in cmd.hard
      BY <1>1 DEF OutcomeInv, DiskOK
    <2>3. DiskOK'
      BY <1>1, <2>1, <2>2 DEF OutcomeInv, DiskOK, Starting, Flushes, OnDisk
    <2>4. Might(cmd, mem')
      BY <2>1, <2>2, PossibleAtOnce
    <2>5. WorkOK'
      BY <2>1, <2>2, <2>4 DEF WorkOK, Flushes
    <2>6. ExitCodeTellsTheOutcome'
      BY <2>1 DEF OutcomeInv, ExitCodeTellsTheOutcome
    <2> QED
      BY <2>3, <2>5, <2>6 DEF OutcomeInv
  <1> QED
    BY <1>2, <1>3

LEMMA DestroyTells ==
    ASSUME IInv, OutcomeInv, Destroy
    PROVE  OutcomeInv'
  <1>1. pc = "leave"
    BY DEF Destroy
  <1>2. CASE dirty
    <2>1. /\ pc' = "tmp" /\ unwinding' = TRUE
          /\ UNCHANGED <<path, hard, dir, anchored, cmd, exit, mem, dirty, ran>>
      BY <1>2 DEF Destroy, fileVars, kept, memory
    <2>2. DiskOK'
      BY <1>1, <1>2, <2>1 DEF OutcomeInv, DiskOK, Starting, Flushes, OnDisk
    <2>3. WorkOK'
      BY <1>1, <1>2, <2>1 DEF OutcomeInv, WorkOK, Flushes
    <2>4. ExitCodeTellsTheOutcome'
      BY <2>1 DEF OutcomeInv, ExitCodeTellsTheOutcome
    <2> QED
      BY <2>2, <2>3, <2>4 DEF OutcomeInv
  <1>3. CASE ~dirty
    <2>1. /\ Idle /\ ran' = [cmd |-> cmd, how |-> exit, after |-> OnDisk]
          /\ UNCHANGED <<path, hard, dir, anchored>>
      BY <1>3 DEF Destroy, Close, fileVars
    <2>2. OnDisk = mem
      BY <1>1, <1>3 DEF OutcomeInv, DiskOK
    <2>3. /\ Accepted(cmd) \/ (OnDisk = cmd.before /\ exit # 0)
          /\ exit = 0 => Did(cmd, OnDisk)
          /\ exit = 2 /\ cmd.name # "import" => OnDisk = cmd.before
          /\ Might(cmd, OnDisk)
      BY <1>1, <2>2 DEF OutcomeInv, WorkOK
    <2>4. ExitCodeTellsTheOutcome'
      BY <1>1, <2>1, <2>3, Told
    <2> QED
      BY <2>1, <2>4, ShellKeeps DEF Idle, OutcomeInv, DiskOK
  <1> QED
    BY <1>2, <1>3

\* A step of the flush, which may put the memory in the file's place.
LEMMA FlushStepTells ==
    ASSUME IInv, OutcomeInv, pc \in Flushes, pc' \in Flushes,
           UNCHANGED <<dir, kept, cmd, exit, memory, unwinding, ran>>,
           path' \in {path, FileOf(mem)}, hard' \subseteq hard \cup {FileOf(mem)}
    PROVE  OutcomeInv'
  <1>1. UNCHANGED <<dir, anchored, cmd, exit, mem, dirty, unwinding, ran>> /\ dir = "ready"
    BY DEF kept, memory, IInv, ProcessOK
  <1>2. mem \in Contents
    BY DEF IInv
  <1>3. Held(FileOf(mem)) = mem
    BY <1>2, HeldOf
  <1>4. /\ Held(path) \in {cmd.before, mem}
        /\ \A file \in hard : Held(file) \in cmd.hard \cup {mem}
    BY DEF OutcomeInv, DiskOK, Flushes, OnDisk
  <1>5. OnDisk' = Held(path')
    BY DEF OnDisk
  <1>6. /\ OnDisk' \in {cmd.before, mem}
        /\ \A file \in hard' : Held(file) \in cmd.hard \cup {mem}
    BY <1>3, <1>4, <1>5
  <1>7. DiskOK'
    BY <1>1, <1>6 DEF OutcomeInv, DiskOK, Starting, Flushes
  <1>8. WorkOK'
    BY <1>1 DEF OutcomeInv, WorkOK, Flushes
  <1>9. ExitCodeTellsTheOutcome'
    BY <1>1 DEF OutcomeInv, ExitCodeTellsTheOutcome
  <1> QED
    BY <1>7, <1>8, <1>9 DEF OutcomeInv

LEMMA WriteFileTells ==
    ASSUME IInv, OutcomeInv, WriteFile
    PROVE  OutcomeInv'
  <1>1. /\ pc \in Flushes /\ pc' \in Flushes
        /\ UNCHANGED <<dir, kept, cmd, exit, memory, unwinding, ran>>
    BY DEF WriteFile, FlushStep, Flushes
  <1>2. FlushOK
    BY DEF IInv
  <1>3. CASE UNCHANGED <<path, hard>>
    BY <1>1, <1>3, FlushStepTells
  <1>4. CASE pc = "rename" /\ Rename
    <2>1. tmp = FileOf(mem) /\ tmpSynced
      BY <1>2, <1>4 DEF FlushOK
    <2>2. path' = FileOf(mem) /\ hard' = hard \cup {FileOf(mem)}
      BY <1>4, <2>1 DEF Rename, Survivors
    <2> QED
      BY <1>1, <2>2, FlushStepTells
  <1>5. CASE pc = "syncdir" /\ SyncDirectory
    <2>1. path = FileOf(mem) /\ tmpSynced
      BY <1>2, <1>5 DEF FlushOK
    <2>2. path' = path /\ hard' = {FileOf(mem)}
      BY <1>5, <2>1 DEF SyncDirectory, Survivors
    <2> QED
      BY <1>1, <2>2, FlushStepTells
  <1> QED
    BY <1>3, <1>4, <1>5 DEF WriteFile, FlushStep, OpenTmp, WriteChunk, Fsync

LEMMA SaveNextIdTells ==
    ASSUME IInv, OutcomeInv, SaveNextId
    PROVE  OutcomeInv'
  <1>1. /\ pc = "nextid" /\ pc' = "leave" /\ dirty' = FALSE
        /\ UNCHANGED <<path, hard, dir, anchored, cmd, exit, mem, unwinding, ran>>
    BY DEF SaveNextId, fileVars
  <1>2. OnDisk = mem
    BY <1>1, HeldOf DEF IInv, FlushOK, OnDisk
  <1>3. DiskOK'
    BY <1>1, <1>2 DEF OutcomeInv, DiskOK, Starting, Flushes, OnDisk
  <1>4. WorkOK'
    BY <1>1 DEF OutcomeInv, WorkOK, Flushes
  <1>5. ExitCodeTellsTheOutcome'
    BY <1>1 DEF OutcomeInv, ExitCodeTellsTheOutcome
  <1> QED
    BY <1>3, <1>4, <1>5 DEF OutcomeInv

LEMMA FlushFailsTells ==
    ASSUME IInv, OutcomeInv, FlushFails
    PROVE  OutcomeInv'
  <1>1. pc \in Flushes /\ pc # "shell" /\ UNCHANGED <<path, hard>>
    BY DEF FlushFails, Flushes, Abandon
  <1>2. OnDisk \in {cmd.before, mem} /\ dirty
    BY <1>1 DEF OutcomeInv, DiskOK, Flushes
  <1>3. /\ Accepted(cmd) \/ (mem = cmd.before /\ exit # 0)
        /\ Might(cmd, mem)
        /\ exit = 0 => Did(cmd, mem)
        /\ exit = 2 /\ cmd.name # "import" => mem = cmd.before
        /\ unwinding /\ exit = 0 => mem = cmd.before
    BY <1>1 DEF OutcomeInv, WorkOK
  <1>4. CASE unwinding
    <2>1. /\ Idle /\ ran' = [cmd |-> cmd, how |-> exit, after |-> OnDisk]
          /\ UNCHANGED <<dir, anchored>>
      BY <1>4 DEF FlushFails, Close
    <2>2. /\ Accepted(cmd) \/ (OnDisk = cmd.before /\ exit # 0)
          /\ exit = 0 => Did(cmd, OnDisk)
          /\ exit = 2 /\ cmd.name # "import" => OnDisk = cmd.before
          /\ Might(cmd, OnDisk)
      BY <1>2, <1>3, <1>4, PossibleAtOnce
    <2>3. ExitCodeTellsTheOutcome'
      BY <1>1, <2>1, <2>2, Told
    <2> QED
      BY <1>1, <2>1, <2>3, ShellKeeps DEF Idle, OutcomeInv, DiskOK
  <1>5. CASE ~unwinding
    <2>1. /\ exit' = 1 /\ pc' = "leave" /\ ~unwinding'
          /\ UNCHANGED <<dir, anchored, cmd, mem, dirty, ran>>
      BY <1>5 DEF FlushFails, kept, memory
    <2>2. DiskOK'
      BY <1>1, <1>2, <2>1 DEF OutcomeInv, DiskOK, Starting, Flushes, OnDisk
    <2>3. WorkOK'
      BY <1>3, <2>1 DEF WorkOK, Flushes
    <2>4. ExitCodeTellsTheOutcome'
      BY <2>1 DEF OutcomeInv, ExitCodeTellsTheOutcome
    <2> QED
      BY <2>2, <2>3, <2>4 DEF OutcomeInv
  <1> QED
    BY <1>4, <1>5

\* What is found when nothing has told the process to end.
LEMMA Halted ==
    ASSUME IInv, OutcomeInv, pc # "shell", NEW how, NEW after, how \notin {0, 2},
           after = OnDisk \/ after = mem \/ (how = 10 /\ after \in cmd.hard),
           pc \in Starting \cup {"run"} => after # mem \/ after = OnDisk,
           ran' = [cmd |-> cmd, how |-> how, after |-> after]
    PROVE  ExitCodeTellsTheOutcome'
  <1>1. CASE how = 10 /\ after \in cmd.hard
    BY <1>1, ToldHard
  <1>2. CASE after = cmd.before
    BY <1>2, ToldBefore
  <1>3. CASE after = mem /\ pc \in {"leave"} \cup Flushes
    <2>1. /\ Accepted(cmd) \/ mem = cmd.before
          /\ Might(cmd, mem)
      BY <1>3 DEF OutcomeInv, WorkOK
    <2> QED
      BY <1>3, <2>1, Told
  <1>4. pc \in Starting \cup {"run"} => OnDisk = cmd.before
    BY DEF OutcomeInv, DiskOK
  <1>5. OnDisk \in {cmd.before, mem}
    BY DEF OutcomeInv, DiskOK
  <1>6. pc \in Starting \cup {"run", "leave"} \cup Flushes
    BY DEF IInv, ProcessOK
  <1> QED
    BY <1>1, <1>2, <1>3, <1>4, <1>5, <1>6

LEMMA KillTells ==
    ASSUME IInv, OutcomeInv, Kill
    PROVE  OutcomeInv'
  <1>1. /\ pc # "shell" /\ Idle /\ UNCHANGED <<path, hard, dir, anchored>>
        /\ ran' = [cmd |-> cmd, how |-> 9, after |-> OnDisk]
    BY DEF Kill, Abandon, kept
  <1>2. PICK after : after = OnDisk
    OBVIOUS
  <1>3. ExitCodeTellsTheOutcome'
    BY <1>1, <1>2, Halted
  <1> QED
    BY <1>1, <1>3, ShellKeeps DEF Idle, OutcomeInv, DiskOK

\* A create that fails has no files yet.
LEMMA CreateFailsTells ==
    ASSUME IInv, OutcomeInv, CreateFails
    PROVE  OutcomeInv'
  <1>1. /\ pc \in Starting /\ Idle /\ UNCHANGED <<path, hard, dir, anchored>>
        /\ ran' = [cmd |-> cmd, how |-> 1, after |-> OnDisk]
    BY DEF CreateFails, Starting, fileVars, kept
  <1>2. OnDisk = cmd.before
    BY <1>1 DEF OutcomeInv, DiskOK
  <1>3. ExitCodeTellsTheOutcome'
    BY <1>1, <1>2, ToldBefore
  <1> QED
    BY <1>1, <1>3, ShellKeeps DEF Idle, OutcomeInv, DiskOK

LEMMA SyncUnseenTells ==
    ASSUME IInv, OutcomeInv, SyncUnseen
    PROVE  OutcomeInv'
  <1>1. /\ pc \in Flushes /\ pc' \in Flushes
        /\ UNCHANGED <<path, hard, dir, kept, cmd, exit, memory, unwinding, ran>>
    BY DEF SyncUnseen, SyncDirectoryUnseen, Flushes
  <1> QED
    BY <1>1, FlushStepTells

LEMMA SettleTells ==
    ASSUME IInv, OutcomeInv, Settle
    PROVE  OutcomeInv'
  <1>1. /\ dir # "absent" /\ anchored'
        /\ UNCHANGED <<path, hard, dir, pc, cmd, exit, mem, dirty, row, unwinding, ran>>
    BY DEF Settle, fileVars, memory
  <1>2. DiskOK'
    BY <1>1 DEF OutcomeInv, DiskOK, Starting, Flushes, OnDisk
  <1>3. WorkOK'
    BY <1>1 DEF OutcomeInv, WorkOK, Flushes
  <1>4. ExitCodeTellsTheOutcome'
    BY <1>1 DEF OutcomeInv, ExitCodeTellsTheOutcome
  <1> QED
    BY <1>2, <1>3, <1>4 DEF OutcomeInv

LEMMA PowerCutTells ==
    ASSUME IInv, OutcomeInv, PowerCut
    PROVE  OutcomeInv'
  <1>1. Idle /\ ran' = [cmd |-> cmd, how |-> 10, after |-> Held(path')]
    BY DEF PowerCut
  <1>2. dir' = "absent" => path' = <<>> /\ hard' = {<<>>} /\ ~anchored'
    <2>1. CASE KeepsDirectory
      <3>1. /\ path' \in hard /\ hard' = {path'}
            /\ dir' = dir \/ dir' = savedHard.dir
            /\ anchored' = (dir # "absent")
        BY <2>1 DEF KeepsDirectory, LosePower
      <3>2. savedHard.dir # "absent"
        BY DEF IInv, TypeOK
      <3>3. dir' = "absent" => dir = "absent"
        BY <3>1, <3>2
      <3>4. dir = "absent" => hard = {<<>>}
        BY DEF OutcomeInv, DiskOK
      <3>5. dir' = "absent" => path' = <<>> /\ hard' = {<<>>}
        BY <3>1, <3>3, <3>4
      <3>6. dir' = "absent" => ~anchored'
        BY <3>1, <3>3
      <3> QED
        BY <3>5, <3>6
    <2>2. CASE LosesDirectory
      BY <2>2 DEF LosesDirectory
    <2> QED
      BY <2>1, <2>2 DEF PowerCut
  <1>3. pc # "shell" => Held(path') \in cmd.hard \/ (Held(path') = mem /\ pc \in {"leave"} \cup Flushes)
    <2> SUFFICES ASSUME pc # "shell"
                 PROVE  Held(path') \in cmd.hard
                            \/ (Held(path') = mem /\ pc \in {"leave"} \cup Flushes)
      OBVIOUS
    <2>1. CASE KeepsDirectory
      <3>1. path' \in hard
        BY <2>1 DEF KeepsDirectory, LosePower
      <3>2. pc \in Starting \cup {"run", "leave"} \cup Flushes
        BY DEF IInv, ProcessOK
      <3> QED
        BY <3>1, <3>2 DEF OutcomeInv, DiskOK
    <2>2. CASE LosesDirectory
      <3>1. ~anchored /\ path' = <<>>
        BY <2>2 DEF LosesDirectory
      <3>2. Held(<<>>) = {}
        BY DEF Held, Readable
      <3> QED
        BY <3>1, <3>2 DEF OutcomeInv, DiskOK
    <2> QED
      BY <2>1, <2>2 DEF PowerCut
  <1>4. ExitCodeTellsTheOutcome'
    <2>1. CASE pc = "shell"
      <3>1. Meant(ran'.cmd).name = "none"
        BY <1>1, <2>1 DEF IInv, ProcessOK, NoCommand, Meant
      <3> QED
        BY <3>1 DEF ExitCodeTellsTheOutcome
    <2>2. CASE pc # "shell"
      <3>1. PICK after : after = Held(path')
        OBVIOUS
      <3>2. pc \in {"leave"} \cup Flushes => pc \notin Starting \cup {"run"}
        BY DEF Starting, Flushes
      <3>3. CASE after \in cmd.hard
        BY <1>1, <3>1, <3>3, ToldHard
      <3>4. CASE after = mem /\ pc \in {"leave"} \cup Flushes
        BY <1>1, <2>2, <3>1, <3>2, <3>4, Halted
      <3> QED
        BY <1>3, <2>2, <3>1, <3>3, <3>4
    <2> QED
      BY <2>1, <2>2
  <1> QED
    BY <1>1, <1>2, <1>4, ShellKeeps DEF Idle

LEMMA OutcomeNext ==
    ASSUME IInv, OutcomeInv, [Next]_vars
    PROVE  OutcomeInv'
  <1>1. CASE UNCHANGED vars
    BY <1>1 DEF vars, fileVars, kept, memory, OutcomeInv, DiskOK, WorkOK, ExitCodeTellsTheOutcome,
                OnDisk, Held, Readable, RegionCount, Starting, Flushes
  <1>2. ASSUME NEW line \in CommandLines, Answer(line)
        PROVE  OutcomeInv'
    <2>1. /\ pc' = "shell" /\ ~unwinding' /\ UNCHANGED <<path, hard, dir, anchored>>
          /\ ran'.cmd = NoCommand
      BY <1>2 DEF Answer, IInv, ProcessOK, fileVars, kept
    <2>2. ExitCodeTellsTheOutcome'
      BY <2>1 DEF ExitCodeTellsTheOutcome, Meant, NoCommand
    <2> QED
      BY <2>1, <2>2, ShellKeeps DEF OutcomeInv, DiskOK
  <1>3. ASSUME NEW line \in CommandLines, Dispatch(line)
        PROVE  OutcomeInv'
    BY <1>3, DispatchTells
  <1>4. CASE Generate
    <2>1. pc \in Starting /\ cmd.name \in Keepers
      BY <1>4 DEF Generate, Starting, IInv, ProcessOK, Keepers, Reads
    <2>2. PICK code : code = Refused
      OBVIOUS
    <2> QED
      BY <1>4, <2>1, <2>2, QuitTells DEF Generate
  <1> QED
    BY <1>1, <1>2, <1>3, <1>4, CreateTells, ConfigureTells, OpenTells, InsertTells, DeleteTells,
       ReadInputTells, ImportRowTells, ImportEndsTells, MaintainTells, ReadTells, DestroyTells,
       WriteFileTells, SaveNextIdTells, FlushFailsTells, KillTells, PowerCutTells, SettleTells,
       SyncUnseenTells, CreateFailsTells
       DEF Next

\* The exit code that main returns tells what became of the database, for every
\* line but the misread ones: a line that is not refused is read as it is meant.
THEOREM ExitCodesTell == Spec => []ExitCodeTellsTheOutcome
  <1>1. Init => OutcomeInv
    BY DEF Init, FileInit, OutcomeInv, DiskOK, WorkOK, ExitCodeTellsTheOutcome, Meant, NeverRan,
           NoCommand, Starting, Flushes
  <1>2. OutcomeInv => ExitCodeTellsTheOutcome
    BY DEF OutcomeInv
  <1>3. IInv /\ OutcomeInv /\ [Next]_vars => OutcomeInv'
    BY OutcomeNext
  <1> QED
    BY <1>1, <1>2, <1>3, CommandsInvariant, PTL DEF Spec

=============================================================================
