------------------------------ MODULE Commands -------------------------------
(***************************************************************************)
(* The command line program: one process at a time, run by a shell, over   *)
(* one database directory.  A process parses its arguments, opens the      *)
(* database, reads its options, refuses the ones it did not look at, does  *)
(* its work, flushes, and turns an exception into an exit code; on the way *)
(* out the destructor flushes whatever is still dirty.                     *)
(*                                                                         *)
(* The contents of a database are a set of ids and vectors.  Metadata, the *)
(* index file and tombstones are module Database's; here the index only    *)
(* shows as a database that is dirty because an open rebuilt it.           *)
(***************************************************************************)
EXTENDS AtomicFile, FiniteSets

CONSTANTS
    MaxId,          \* the largest VectorId
    Vecs,           \* the vectors of the database's dimension, as numbers
    Files,          \* the files of vectors, by number: [form, ids, lines]
    CommandLines,   \* what the user types: sequences of tokens
    Faults,         \* "io", "sync" (a directory's, unseen), "kill", "power"
    MaxFaults       \* bound: how many faults a behaviour has

VARIABLES
    dir,                    \* "absent", "bare" (not configured) or "ready"
    anchored,               \* whether its own entry, in its parent, is on the disk
    saved, savedHard,       \* the next id in SQLite; dir and it, when last synced
    pc, cmd, exit,          \* the process
    mem, next, dirty, row,  \* its database, and how far an import came
    unwinding,              \* whether the destructor is flushing
    faults,                 \* how many faults there have been
    ran                     \* history: how the last process ended, and on what

memory  == <<mem, next, dirty, row>>
kept    == <<anchored, saved, savedHard>>
vars    == <<fileVars, dir, kept, pc, cmd, exit, memory, unwinding, faults, ran>>

Ids == 0 .. MaxId

Entry == [id : Ids, vec : Vecs]

IdsOf(contents) == {e.id : e \in contents}

(***************************************************************************)
(* Args::parse.  A token has a text and may start with dashes; its value   *)
(* after an equals sign is inline.  is tells what a text can be read as: a *)
(* number, a number and more, a vector, another text, or nothing; no text  *)
(* at all is none.  A token that starts with a dash and a digit is         *)
(* negative: an option, where no value is expected.                        *)
(***************************************************************************)
Texts == [is : {"number", "prefix", "vector", "text"}, n : Nat]

Empty == [is |-> "empty", n |-> 0]
None  == [is |-> "none", n |-> 0]

Token == [form : {"word", "short", "long", "negative"}, name : STRING,
          inline : Texts \cup {Empty, None}, value : Texts]

\* configure
GlobalOptions == {"json", "quiet", "verbose", "log-level", "log-file"}

\* expand_short
Expand(token) ==
    LET long == [d |-> "dimension", m |-> "metric", v |-> "verbose", q |-> "query",
                 o |-> "output", i |-> "input"]
    IN  IF token.form = "short" /\ token.name \in DOMAIN long THEN long[token.name]
        ELSE token.name

Dashed(token) == token.form \in {"short", "long"}

\* An option at position i, with no value of its own.
IsBare(argv, i) == i \in DOMAIN argv /\ Dashed(argv[i]) /\ argv[i].inline = None

\* Whether the token at position i takes the next one for its value: an option,
\* and a negative number that is no value itself.
TakesNext(argv, i) ==
    \/ IsBare(argv, i)
    \/ /\ i \in DOMAIN argv /\ argv[i].form = "negative" /\ argv[i].inline = None
       /\ ~IsBare(argv, i - 1)

\* Mutant: an option takes whatever comes next for its value.
ConsumedAny(argv) == [i \in DOMAIN argv |-> TakesNext(argv, i - 1)]

\* The positions whose token is the value of the option before it: a token
\* that is no option, or looks like a negative number.
Consumed(argv) ==
    [i \in DOMAIN argv |-> ~Dashed(argv[i]) /\ TakesNext(argv, i - 1)]

\* The n-th of some positions.
Nth(positions, n) ==
    CHOOSE i \in positions : Cardinality({j \in positions : j <= i}) = n

\* What the process knows of its arguments: positionals in order, and the
\* last value of each option.
Parse(argv) ==
    LET consumed == Consumed(argv)
        options  == {i \in DOMAIN argv : argv[i].form # "word" /\ ~consumed[i]}
        words    == {i \in DOMAIN argv : argv[i].form = "word" /\ ~consumed[i]}
        value(i) == IF argv[i].inline # None THEN argv[i].inline
                    ELSE IF i < Len(argv) /\ consumed[i + 1] THEN argv[i + 1].value
                    ELSE Empty
        last(n)  == CHOOSE i \in options :
                        /\ Expand(argv[i]) = n
                        /\ \A j \in options : Expand(argv[j]) = n => j <= i
    IN  [positionals |-> [n \in 1 .. Cardinality(words) |-> argv[Nth(words, n)].value],
         options     |-> [n \in {Expand(argv[i]) : i \in options} |-> value(last(n))]]

Has(args, name) == name \in DOMAIN args.options

\* A value that is empty counts as absent.
Value(args, name) == IF Has(args, name) THEN args.options[name] ELSE Empty

Number(args, name, fallback) ==
    IF Value(args, name) = Empty THEN fallback ELSE Value(args, name).n

(***************************************************************************)
(* What each command reads                                                 *)
(***************************************************************************)
Querying == {"k", "ef-search", "exact", "oversample", "filter", "time"}

Reads ==
    [create        |-> {"dimension", "metric", "index", "normalize", "m",
                        "ef-construction", "ef-search", "seed"},
     info          |-> {}, stats |-> {}, delete |-> {}, compact |-> {}, rebuild |-> {},
     insert        |-> {"vector", "meta", "id"},
     get           |-> {"preview"},
     search        |-> {"query", "query-file"} \cup Querying,
     batch         |-> {"queries"} \cup Querying,
     import        |-> {"input", "csv", "csv-ids", "start-id"},
     export        |-> {"output", "csv"},
     generate      |-> {"dimension", "count", "seed", "sample-seed", "clusters", "kind",
                        "output", "csv"},
     check         |-> {"deep"}]

Required ==
    [c \in DOMAIN Reads |->
        CASE c = "create" -> {"dimension"}  [] c = "insert" -> {"vector"}
          [] c = "import" -> {"input"}      [] c = "export" -> {"output"}
          [] c = "batch"  -> {"queries"}    [] c = "generate" -> {"dimension", "count", "output"}
          [] OTHER -> {}]

Numbers == {"dimension", "count", "k", "ef-search", "oversample", "id", "start-id", "preview",
            "m", "ef-construction", "seed", "sample-seed", "clusters"}

IsVector(text) == text.is \in {"number", "vector"}

\* Args::unused, after configure and the command have looked at theirs.
Unused(name, args) == DOMAIN args.options \ (Reads[name] \cup GlobalOptions)

\* The options are wrong: InvalidArgumentError, before anything is done.
OptionsRefused(name, args) ==
    \/ \E o \in Required[name] : Value(args, o) = Empty
    \/ \E o \in Reads[name] \cap Numbers :
           Value(args, o) # Empty /\ Value(args, o).is # "number"
    \/ name = "insert" /\ ~IsVector(Value(args, "vector"))
    \/ name = "search" /\ (Value(args, "query") = Empty <=> Value(args, "query-file") = Empty)
    \/ Unused(name, args) # {}

\* std::stoull reads the number a text starts with.
IdArgument(args) == args.positionals[2]

(***************************************************************************)
(* Files of vectors: "csv", "matrix" or "narrow", a matrix of another      *)
(* dimension than the database's, with or without a column of ids.  A line *)
(* has an id and a vector, 0 for one without any components; blank lines   *)
(* and comments are left out.  A number that is in no file's place is a    *)
(* missing file.                                                           *)
(***************************************************************************)
CsvRows(lines) ==
    LET rows == {i \in DOMAIN lines : lines[i].vec # 0}
    IN  [n \in 1 .. Cardinality(rows) |-> lines[Nth(rows, n)]]

\* The exit code of a file that cannot be read, 0 of one that can.  A CSV
\* file is no matrix: CorruptionError.
MatrixRefusal(file) ==
    IF file \in DOMAIN Files /\ Files[file].form \in {"matrix", "narrow"} THEN 0 ELSE 1

\* A matrix is no CSV, one without vectors is refused, and a column of ids
\* that is not announced, or announced and not there, makes the vectors of
\* another dimension: InvalidArgumentError.
CsvRefusal(file, withIds) ==
    IF file \notin DOMAIN Files THEN 1
    ELSE IF /\ Files[file].form = "csv"
            /\ CsvRows(Files[file].lines) # <<>>
            /\ Files[file].ids = withIds THEN 0
    ELSE 2

Input(args) == Value(args, "input").n

\* The dimension is looked at before the first row.
InputRefusal(args) ==
    IF Has(args, "csv") THEN CsvRefusal(Input(args), Has(args, "csv-ids"))
    ELSE IF MatrixRefusal(Input(args)) = 1 THEN 1
    ELSE IF Files[Input(args)].form = "narrow" THEN 2
    ELSE 0

\* The exit code a command is refused with before its work, or 0.  read_query
\* reads its file before unknown options are looked for.
Refusal(name, args) ==
    IF /\ name = "search" /\ Value(args, "query") = Empty
       /\ Value(args, "query-file") # Empty
       /\ MatrixRefusal(Value(args, "query-file").n) = 1 THEN 1
    ELSE IF OptionsRefused(name, args) THEN 2
    ELSE 0

\* read_vector_matrix.
MatrixBatch(file) ==
    [ids  |-> IF file.ids THEN [i \in DOMAIN file.lines |-> file.lines[i].id] ELSE <<>>,
     vecs |-> [i \in DOMAIN file.lines |-> file.lines[i].vec]]

\* read_vector_csv: a line without components is skipped after its id has
\* been taken.
CsvBatch(file) ==
    [ids  |-> MatrixBatch(file).ids,
     vecs |-> [i \in DOMAIN CsvRows(file.lines) |-> CsvRows(file.lines)[i].vec]]

Batch(args) ==
    IF Has(args, "csv") THEN CsvBatch(Files[Input(args)]) ELSE MatrixBatch(Files[Input(args)])

\* The id a row of the batch is inserted under; start_id + i wraps around.
RowId(args, i, nextId) ==
    IF Has(args, "start-id") THEN (Number(args, "start-id", 0) + i - 1) % (MaxId + 1)
    ELSE IF Batch(args).ids # <<>> THEN Batch(args).ids[i]
    ELSE nextId

\* Mutant: the counter does not wrap.
NextAfterUnbounded(id, nextId) == IF id >= nextId THEN id + 1 ELSE nextId

\* next_auto_id_ is the successor of the largest id seen, in 64 bits.
NextAfter(id, nextId) == IF id >= nextId THEN (id + 1) % (MaxId + 1) ELSE nextId

-----------------------------------------------------------------------------
\* An id that is typed or in a file has the width of a VectorId and no sign; no
\* option is called by a number, and no two negative numbers follow each other,
\* of which the second would be such an option; and a matrix has a dimension, so that none of its
\* vectors is without components.
ASSUME CommandsAssumption ==
    /\ MaxId \in Nat
    /\ Regions \in Nat \ {0}
    /\ \A line \in CommandLines :
           /\ line.argv \in Seq(Token)
           /\ \A i \in DOMAIN line.argv : line.argv[i].form = "negative" =>
                  /\ line.argv[i].value.is # "number"
                  /\ i + 1 \in DOMAIN line.argv => line.argv[i + 1].form # "negative"
                  /\ \A name \in DOMAIN Reads :
                         Expand(line.argv[i]) \notin Reads[name] \cup GlobalOptions
           /\ \A o \in {"id", "start-id"} :
                  LET v == Value(Parse(line.argv), o) IN v.is = "number" => v.n \in Ids
    /\ \A f \in DOMAIN Files :
           /\ Files[f].form \in {"csv", "matrix", "narrow"}
           /\ Files[f].ids \in BOOLEAN
           /\ Files[f].lines \in Seq([id : Ids, vec : Nat])
           /\ Files[f].form # "csv" => \A i \in DOMAIN Files[f].lines : Files[f].lines[i].vec # 0

-----------------------------------------------------------------------------
NoCommand ==
    [name |-> "none", argv |-> <<>>, args |-> Parse(<<>>), before |-> {}, hard |-> {}]

NeverRan == [cmd |-> NoCommand, how |-> 0, after |-> {}]

Idle ==
    /\ cmd' = NoCommand
    /\ mem' = {}
    /\ next' = 0
    /\ dirty' = FALSE
    /\ row' = 0
    /\ unwinding' = FALSE
    /\ exit' = 0
    /\ pc' = "shell"

Init ==
    /\ FileInit
    /\ dir = "absent"
    /\ anchored = FALSE
    /\ saved = 0
    /\ savedHard = [dir |-> "bare", next |-> 0]
    /\ pc = "shell"
    /\ cmd = NoCommand
    /\ exit = 0
    /\ mem = {}
    /\ next = 0
    /\ dirty = FALSE
    /\ row = 0
    /\ unwinding = FALSE
    /\ faults = 0
    /\ ran = NeverRan

\* What a file holds, to the process that opens it.
Held(file) == IF Readable(file) THEN file[1].of ELSE {}

OnDisk == Held(path)

\* What may be there after a power cut: the contents of any file that a reader
\* may find, or no database.
Findable == {Held(file) : file \in hard} \cup IF anchored THEN {} ELSE {{}}

\* The process is over, and had opened no database.
Quit(code) ==
    /\ Idle
    /\ ran' = [cmd |-> cmd, how |-> code, after |-> OnDisk]
    /\ UNCHANGED <<fileVars, dir, kept, faults>>

\* The process is over; SQLite's last close writes its log into the file.
Close(code) ==
    /\ Idle
    /\ ran' = [cmd |-> cmd, how |-> code, after |-> OnDisk]
    /\ savedHard' = [dir |-> dir, next |-> saved]
    /\ UNCHANGED <<dir, anchored, saved>>

\* An exception, or the return of the command: the destructor runs.  What it
\* cannot write it loses without a word.
Leave(code) ==
    /\ exit' = code
    /\ pc' = "leave"
    /\ UNCHANGED <<fileVars, dir, kept, cmd, unwinding, faults, ran>>

(***************************************************************************)
(* main                                                                    *)
(***************************************************************************)
\* No command, help, version, a name that is not in the table, a bad log
\* level: no handler runs.
Answered(line) ==
    CASE line.name = "none"                -> {2}
      [] line.name \in {"help", "version"} -> {0}
      [] line.name \notin DOMAIN Reads \cup {"none", "help", "version"} -> {2}
      [] line.name \in DOMAIN Reads ->
             IF Value(Parse(line.argv), "log-level").is = "number" THEN {2} ELSE {}

Answer(line) ==
    /\ pc = "shell"
    /\ \E code \in Answered(line) :
           ran' = [cmd |-> NoCommand, how |-> code, after |-> OnDisk]
    /\ UNCHANGED <<fileVars, dir, kept, pc, cmd, exit, memory, unwinding, faults>>

Dispatch(line) ==
    /\ pc = "shell"
    /\ Answered(line) = {}
    /\ cmd' = [name |-> line.name, argv |-> line.argv, args |-> Parse(line.argv),
               before |-> OnDisk, hard |-> Findable]
    /\ ran' = NeverRan
    /\ pc' = CASE line.name = "create"   -> "create"
               [] line.name = "generate" -> "generate"
               [] OTHER                  -> "open"
    /\ UNCHANGED <<fileVars, dir, kept, exit, memory, unwinding, faults>>

Refused == Refusal(cmd.name, cmd.args)

\* generate has no database; its output file is another atomic file.
Generate ==
    /\ pc = "generate"
    /\ Quit(Refused)

\* create: an existing directory is refused; the configuration is committed,
\* then an empty database is flushed.  The directory's parent is not synced.
CreateRefused == cmd.args.positionals = <<>> \/ Refused # 0 \/ dir # "absent"

Create ==
    /\ pc = "create"
    /\ IF CreateRefused THEN Quit(2)
       ELSE /\ dir' = "bare"
            /\ pc' = "configure"
            /\ UNCHANGED <<fileVars, kept, cmd, exit, memory, unwinding, faults, ran>>

Configure ==
    /\ pc = "configure"
    /\ dir' = "ready"
    /\ saved' = 0
    /\ dirty' = TRUE
    /\ pc' = "tmp"
    /\ UNCHANGED <<fileVars, anchored, savedHard, cmd, exit, mem, next, row, unwinding, faults,
                   ran>>

\* The kernel writes the entry of the directory to the disk in its own time.
Settle ==
    /\ dir # "absent"
    /\ ~anchored
    /\ anchored' = TRUE
    /\ UNCHANGED <<fileVars, dir, saved, savedHard, pc, cmd, exit, memory, unwinding, faults, ran>>

\* open, the first thing every other handler does.  An index that is missing
\* or does not fit is rebuilt, which makes the database dirty.  Where the
\* first word is no path but what should come after it, no database is.
Open ==
    /\ pc = "open"
    /\ IF cmd.args.positionals = <<>> THEN Quit(2)
       ELSE IF \/ cmd.args.positionals[1].is # "text" \/ dir # "ready"
               \/ (path # <<>> /\ ~Readable(path)) THEN Quit(1)
       ELSE /\ mem' = OnDisk
            /\ next' = saved
            /\ dirty' \in BOOLEAN
            /\ row' = 0
            /\ exit' = Refused
            /\ pc' = IF Refused # 0 THEN "leave" ELSE "run"
            /\ UNCHANGED <<fileVars, dir, kept, cmd, unwinding, faults, ran>>

(***************************************************************************)
(* The handlers, once their options are read                               *)
(***************************************************************************)
Running(name) == pc = "run" /\ cmd.name = name

\* flush() at the end of a writing handler: a no-op when nothing is dirty.
Flushing(isDirty, code) ==
    /\ exit' = code
    /\ pc' = IF isDirty THEN "tmp" ELSE "leave"

InsertEntry(id, v) ==
    /\ mem' = mem \cup {[id |-> id, vec |-> v]}
    /\ next' = NextAfter(id, next)
    /\ dirty' = TRUE

\* --id without a value is id 0.
Insert ==
    /\ Running("insert")
    /\ LET id == IF Has(cmd.args, "id") THEN Number(cmd.args, "id", 0) ELSE next
           v  == Value(cmd.args, "vector").n
       IN  IF id \in IdsOf(mem) THEN Leave(1) /\ UNCHANGED memory
           ELSE IF v \notin Vecs THEN Leave(2) /\ UNCHANGED memory
           ELSE /\ InsertEntry(id, v)
                /\ Flushing(TRUE, 0)
                /\ UNCHANGED <<fileVars, dir, kept, cmd, row, unwinding, faults, ran>>

Delete ==
    /\ Running("delete")
    /\ IF Len(cmd.args.positionals) < 2 \/ IdArgument(cmd.args).is \notin {"number", "prefix"}
       THEN Leave(2) /\ UNCHANGED memory
       ELSE LET id == IdArgument(cmd.args).n
            IN  /\ mem' = {e \in mem : e.id # id}
                /\ dirty' = (dirty \/ id \in IdsOf(mem))
                /\ Flushing(dirty', IF id \in IdsOf(mem) THEN 0 ELSE 1)
                /\ UNCHANGED <<fileVars, dir, kept, cmd, next, row, unwinding, faults, ran>>

\* The whole file is read before the first row is inserted.
ReadInput ==
    /\ Running("import")
    /\ row = 0
    /\ IF InputRefusal(cmd.args) # 0 THEN Leave(InputRefusal(cmd.args)) /\ UNCHANGED memory
       ELSE /\ row' = 1
            /\ UNCHANGED <<fileVars, dir, kept, pc, cmd, exit, mem, next, dirty,
                           unwinding, faults, ran>>

\* One row of an import; nothing undoes the rows before a row that fails.
ImportRow ==
    /\ Running("import")
    /\ row > 0
    /\ row <= Len(Batch(cmd.args).vecs)
    /\ LET id == RowId(cmd.args, row, next)
           v  == Batch(cmd.args).vecs[row]
       IN  IF id \in IdsOf(mem) THEN Leave(1) /\ UNCHANGED memory
           ELSE IF v \notin Vecs THEN Leave(2) /\ UNCHANGED memory
           ELSE /\ InsertEntry(id, v)
                /\ row' = row + 1
                /\ UNCHANGED <<fileVars, dir, kept, pc, cmd, exit, unwinding, faults, ran>>

ImportEnds ==
    /\ Running("import")
    /\ row > 0
    /\ row > Len(Batch(cmd.args).vecs)
    /\ Flushing(dirty, 0)
    /\ UNCHANGED <<fileVars, dir, kept, cmd, memory, unwinding, faults, ran>>

\* rebuild-index always writes; compact when there are tombstones, and else it
\* leaves what the opening has made dirty to the destructor.
Maintain ==
    /\ pc = "run"
    /\ \/ cmd.name = "compact" /\ Leave(0) /\ UNCHANGED memory
       \/ /\ cmd.name \in {"rebuild", "compact"}
          /\ dirty' = TRUE
          /\ Flushing(TRUE, 0)
          /\ UNCHANGED <<fileVars, dir, kept, cmd, mem, next, row, unwinding, faults, ran>>

\* The vectors of a file that is searched for: one of another dimension, or
\* that is not finite, is refused when its turn comes.
Unfit(file, i) == Files[file].form = "narrow" \/ Files[file].lines[i].vec \notin Vecs

\* search: one vector, or the first of a file.
SearchRefused(args) ==
    \/ Number(args, "k", 10) = 0
    \/ IF Value(args, "query") # Empty
       THEN ~IsVector(Value(args, "query")) \/ Value(args, "query").n \notin Vecs
       ELSE LET file == Value(args, "query-file").n
            IN  Files[file].lines = <<>> \/ Unfit(file, 1)

\* batch-search: all the vectors of a file, none included.
BatchCode(args) ==
    LET file == Value(args, "queries").n
    IN  IF MatrixRefusal(file) = 1 THEN 1
        ELSE IF \E i \in DOMAIN Files[file].lines :
                    Number(args, "k", 10) = 0 \/ Unfit(file, i) THEN 2
        ELSE 0

\* The reading handlers: a get of an absent id is an error, a k of zero a
\* usage mistake, and a check may find the index file at fault, which an open
\* has repaired in memory alone.
Read ==
    /\ pc = "run"
    /\ cmd.name \in {"info", "stats", "get", "search", "batch", "export", "check"}
    /\ UNCHANGED memory
    /\ LET id == IdArgument(cmd.args)
       IN  CASE cmd.name = "get" ->
                    Leave(IF Len(cmd.args.positionals) < 2 \/ id.is \notin {"number", "prefix"}
                          THEN 2 ELSE IF id.n \in IdsOf(mem) THEN 0 ELSE 1)
             [] cmd.name = "search" -> Leave(IF SearchRefused(cmd.args) THEN 2 ELSE 0)
             [] cmd.name = "batch"  -> Leave(BatchCode(cmd.args))
             [] cmd.name = "check" -> \E code \in IF dirty THEN {0, 3} ELSE {0} : Leave(code)
             [] OTHER -> Leave(0)

\* The destructor.
Destroy ==
    /\ pc = "leave"
    /\ IF dirty
       THEN /\ pc' = "tmp"
            /\ unwinding' = TRUE
            /\ UNCHANGED <<fileVars, dir, kept, cmd, exit, memory, faults, ran>>
       ELSE Close(exit) /\ UNCHANGED <<fileVars, faults>>

(***************************************************************************)
(* Database::flush: the vector file, then the next id                      *)
(***************************************************************************)
FlushStep(from, step, to) ==
    /\ pc = from
    /\ step
    /\ pc' = to
    /\ UNCHANGED <<dir, kept, cmd, exit, memory, unwinding, faults, ran>>

WriteFile ==
    \/ FlushStep("tmp", OpenTmp, "chunks")
    \/ FlushStep("chunks", WriteChunk(mem),
                 IF Len(tmp) + 1 < RegionCount(mem) THEN "chunks" ELSE "fsync")
    \/ FlushStep("fsync", Fsync, "rename")
    \/ FlushStep("rename", Rename, "syncdir")
    \/ FlushStep("syncdir", SyncDirectory, "nextid")

Fault(kind) ==
    /\ kind \in Faults
    /\ faults < MaxFaults
    /\ faults' = faults + 1

\* The directory could not be synced, and nobody is told.
SyncUnseen ==
    /\ Fault("sync")
    /\ pc = "syncdir"
    /\ SyncDirectoryUnseen
    /\ pc' = "nextid"
    /\ UNCHANGED <<dir, kept, cmd, exit, memory, unwinding, ran>>

SaveNextId ==
    /\ pc = "nextid"
    /\ saved' = next
    /\ dirty' = FALSE
    /\ pc' = "leave"
    /\ UNCHANGED <<fileVars, dir, anchored, savedHard, cmd, exit, mem, next, row, unwinding, faults,
                   ran>>

\* The directory or its metadata store cannot be made, or the configuration
\* not be committed.
CreateFails ==
    /\ Fault("io")
    /\ (pc = "create" /\ ~CreateRefused) \/ pc = "configure"
    /\ Idle
    /\ ran' = [cmd |-> cmd, how |-> 1, after |-> OnDisk]
    /\ UNCHANGED <<fileVars, dir, kept>>

\* A step throws.  An explicit flush leaves with exit code 1 and a database
\* that is still dirty, so that the destructor tries once more; what the
\* destructor cannot write is lost.
FlushFails ==
    /\ Fault("io")
    /\ pc \in {"tmp", "chunks", "fsync", "rename", "syncdir", "nextid"}
    /\ Abandon
    /\ IF unwinding
       THEN Close(exit)
       ELSE /\ exit' = 1
            /\ pc' = "leave"
            /\ UNCHANGED <<dir, kept, cmd, memory, unwinding, ran>>

Kill ==
    /\ Fault("kill")
    /\ pc # "shell"
    /\ Idle
    /\ ran' = [cmd |-> cmd, how |-> 9, after |-> OnDisk]
    /\ Abandon
    /\ UNCHANGED <<dir, kept>>

\* The directory is there again.  SQLite runs with synchronous = NORMAL:
\* commits since the last close may go.
KeepsDirectory ==
    /\ LosePower
    /\ \/ UNCHANGED <<dir, saved>>
       \/ dir = "ready" /\ dir' = savedHard.dir /\ saved' = savedHard.next
    /\ savedHard' = IF dir' = "ready" THEN [dir |-> dir', next |-> saved'] ELSE savedHard
    /\ anchored' = (dir # "absent")

\* The directory's parent has never heard of it: everything in it is gone.
LosesDirectory ==
    /\ ~anchored
    /\ tmp' = <<>> /\ tmpSynced' = FALSE /\ path' = <<>> /\ hard' = {<<>>} /\ unseen' = FALSE
    /\ dir' = "absent"
    /\ saved' = 0
    /\ savedHard' = [dir |-> "bare", next |-> 0]
    /\ anchored' = FALSE

PowerCut ==
    /\ Fault("power")
    /\ KeepsDirectory \/ LosesDirectory
    /\ Idle
    /\ ran' = [cmd |-> cmd, how |-> 10, after |-> Held(path')]

-----------------------------------------------------------------------------
Next ==
    \/ \E line \in CommandLines : Answer(line) \/ Dispatch(line)
    \/ Generate
    \/ Create
    \/ Configure
    \/ Settle
    \/ Open
    \/ Insert
    \/ Delete
    \/ ReadInput
    \/ ImportRow
    \/ ImportEnds
    \/ Maintain
    \/ Read
    \/ Destroy
    \/ WriteFile
    \/ SyncUnseen
    \/ SaveNextId
    \/ CreateFails
    \/ FlushFails
    \/ Kill
    \/ PowerCut

Spec == Init /\ [][Next]_vars
-----------------------------------------------------------------------------
\* The type invariant.
TypeOK ==
    /\ {tmpSynced, unseen, anchored} \subseteq BOOLEAN
    /\ dir \in {"absent", "bare", "ready"}
    /\ {saved, next} \subseteq Ids
    /\ savedHard \in [dir : {"bare", "ready"}, next : Ids]
    /\ exit \in 0 .. 3
    /\ mem \subseteq Entry
    /\ dirty \in BOOLEAN
    /\ unwinding \in BOOLEAN

\* "A reader ever sees the complete old file or the complete new one"
\* (file_io.hpp): whenever the program is stopped, by whatever stops it, the
\* file under the name is whole, and holds each id once.
FileIsWhole ==
    \A file \in hard \cup {path} :
        /\ Whole(file)
        /\ file # <<>> => \A a, b \in file[1].of : a.id = b.id => a = b

(***************************************************************************)
(* The reference: what a command line says                                 *)
(***************************************************************************)
\* The options that the usage text shows without a value.
Flags == {"json", "quiet", "verbose", "normalize", "exact", "time", "csv", "csv-ids", "deep"}

\* A token with a dash in front is an option, unless it is a number.  The i-th
\* token is the value of the option before it.
IsValue(argv, i) ==
    /\ i \in DOMAIN argv
    /\ ~Dashed(argv[i])
    /\ i > 1
    /\ Dashed(argv[i - 1])
    /\ argv[i - 1].inline = None
    /\ Expand(argv[i - 1]) \notin Flags

\* An option counts where it is typed last; what is neither an option nor the
\* value of one is an argument.
Reading(argv) ==
    LET options   == {i \in DOMAIN argv : Dashed(argv[i])}
        arguments == {i \in DOMAIN argv : ~Dashed(argv[i]) /\ ~IsValue(argv, i)}
        value(i)  == CASE argv[i].inline # None -> argv[i].inline
                       [] argv[i].inline = None /\ IsValue(argv, i + 1) -> argv[i + 1].value
                       [] OTHER -> Empty
    IN  [positionals |-> [n \in 1 .. Cardinality(arguments) |-> argv[Nth(arguments, n)].value],
         options     |-> [name \in {Expand(argv[i]) : i \in options} |->
                              value(CHOOSE i \in options :
                                        /\ Expand(argv[i]) = name
                                        /\ \A j \in options : Expand(argv[j]) = name => j <= i)]]

(***************************************************************************)
(* The reference: what a command is for                                    *)
(***************************************************************************)
\* The command as its line says it.
Meant(c) ==
    [name |-> c.name, argv |-> c.argv, args |-> Reading(c.argv), before |-> c.before,
     hard |-> c.hard]

\* The lines of an import that hold a vector.
Lines(c) ==
    IF Input(c.args) \in DOMAIN Files THEN CsvRows(Files[Input(c.args)].lines) ELSE <<>>

BringsIds(c) ==
    /\ Input(c.args) \in DOMAIN Files /\ Files[Input(c.args)].ids
    /\ ~Has(c.args, "start-id")

\* The contents after the first n rows of an import, ids paired with the
\* vectors of their own lines.
Imported(c, n) ==
    c.before \cup
    {[id  |-> IF BringsIds(c) THEN Lines(c)[i].id
              ELSE Number(c.args, "start-id", 0) + i - 1,
      vec |-> Lines(c)[i].vec] : i \in 1 .. n}

Intended(c) ==
    CASE c.name = "insert" /\ Has(c.args, "id") ->
             c.before \cup {[id |-> Number(c.args, "id", 0), vec |-> Value(c.args, "vector").n]}
      [] c.name = "delete" /\ Len(c.args.positionals) > 1 ->
             {e \in c.before : e.id # IdArgument(c.args).n}
      [] c.name = "import" -> Imported(c, Len(Lines(c)))
      [] OTHER -> c.before

\* Whether the ids are the program's to choose; then only what is added is
\* known, the vectors and how many there are.
Chooses(c) ==
    \/ c.name = "insert" /\ ~Has(c.args, "id")
    \/ c.name = "import" /\ ~BringsIds(c) /\ ~Has(c.args, "start-id")

Given(c) == IF c.name = "insert" THEN <<Value(c.args, "vector").n>>
            ELSE [i \in DOMAIN Lines(c) |-> Lines(c)[i].vec]

\* after adds the first n vectors a command is given, under new ids.
Adds(c, after, n) ==
    /\ c.before \subseteq after
    /\ Cardinality(after \ c.before) = n
    /\ \A v \in Vecs : Cardinality({e \in after \ c.before : e.vec = v})
                           = Cardinality({i \in 1 .. n : Given(c)[i] = v})

\* What a command may have made of the contents it found, whether or not it
\* came to its end: everything or nothing, or the rows of an import from the
\* first to some row.
Possible(c, after) ==
    \/ after = c.before
    \/ ~Chooses(c) /\ after = Intended(c)
    \/ ~Chooses(c) /\ c.name = "import" /\ \E n \in DOMAIN Lines(c) : after = Imported(c, n)
    \/ Chooses(c) /\ \E n \in DOMAIN Given(c) : Adds(c, after, n)

Done(c, after) ==
    IF Chooses(c) THEN Adds(c, after, Len(Given(c))) ELSE after = Intended(c)

\* Ids of an import that are other ones than the file or the user gives: a line
\* without components gives its id to the next one, an option without a value
\* is zero, and ids beyond the last one start from zero again.
StrayIds(c) ==
    /\ c.name = "import"
    /\ \/ BringsIds(c) /\ Len(Lines(c)) # Len(Files[Input(c.args)].lines)
       \/ /\ Has(c.args, "start-id")
          /\ \/ Value(c.args, "start-id") = Empty
             \/ Number(c.args, "start-id", 0) + Len(Lines(c)) > MaxId + 1

\* How many arguments a command looks at, its own name left out.
Looks(name) == CASE name \in {"get", "delete"} -> 2 [] name = "generate" -> 0 [] OTHER -> 1

\* The lines that the program takes for something else than they say, without
\* a word: stray ids, an --id without a value, which is id 0, a number to delete
\* with something after it, which is left out, and arguments it does not look
\* at.
Misread(c) ==
    \/ StrayIds(c)
    \/ c.name = "insert" /\ Has(c.args, "id") /\ Value(c.args, "id") = Empty
    \/ c.name = "delete" /\ Len(c.args.positionals) > 1 /\ IdArgument(c.args).is = "prefix"
    \/ Len(c.args.positionals) > Looks(c.name)

\* The exit code tells what became of the database, for every line that is not
\* one of the misread ones.  0: what the line says has happened.  2, a usage
\* mistake: nothing has changed, but for an import, whose rows before the
\* mistake stay.  Any other end, a killed process (9) and a power cut (10)
\* included, leaves what the command may have done so far, or what was there
\* before it, on the disk when the power went.
ExitCodeTellsTheOutcome ==
    LET c == Meant(ran.cmd)
    IN  c.name # "none" /\ ~Misread(c) =>
            /\ ran.how = 0 => Done(c, ran.after)
            /\ ran.how = 2 /\ c.name # "import" => ran.after = c.before
            /\ Possible(c, ran.after) \/ (ran.how = 10 /\ ran.after \in c.hard)

\* The commands that always have something to write, and an import that is
\* given any vector: read_vector_matrix accepts a matrix without one.
Writes(c) ==
    \/ c.name \in {"create", "insert", "delete", "rebuild"}
    \/ c.name = "import" /\ Lines(c) # <<>>

\* What a writing command that returned 0 has done survives a power cut, once
\* the entry of the database's directory is on the disk and unless the last
\* sync of the directory failed unseen: only one file can be found then, the one
\* it left, and the next id with it.  Neither is the program's doing: create
\* does not sync the parent, and what fsync returns for a directory is ignored.
SuccessIsDurable ==
    /\ pc = "shell"
    /\ ran.how = 0
    /\ Writes(ran.cmd)
    /\ anchored
    /\ ~unseen
    => /\ \A file \in hard : Readable(file) /\ file[1].of = ran.after
       /\ savedHard = [dir |-> "ready", next |-> saved]
=============================================================================
