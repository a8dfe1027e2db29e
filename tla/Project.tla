------------------------------- MODULE Project ------------------------------
(***************************************************************************)
(* A project directory and the commands that work on it: `lara record`,    *)
(* `import`, `train` and `perform`, each a process of its own, any number  *)
(* of them at a time (docs/topics.md:411 recommends to train several       *)
(* networks at once).  Nothing is locked: what a command tests may no      *)
(* longer hold when it acts on it, a file is visible while it is being     *)
(* written, a process may be killed anywhere, and a write that fails is    *)
(* noticed by nobody.  A file is named after the local time, which two     *)
(* commands may read alike: within a microsecond of each other, after the  *)
(* clock was set back, or in the hour that summer time ends with.          *)
(*                                                                         *)
(* One step is one call of the file system.  The larasynth.conf is there   *)
(* and valid.  What is recorded, learned or played is the business of the  *)
(* other modules; of a file's contents there is who wrote it and how many  *)
(* parts of it have reached the disk.                                      *)
(***************************************************************************)
EXTENDS Naturals, FiniteSets

CONSTANTS
  Recorders, Trainers, Performers,  \* the commands, by what they do
  Parts,     \* the parts of what a command writes; a recording may have none
  Stamps,    \* the timestamps
  NoStamp    \* of a command that has taken none yet

Writers == Recorders \cup Trainers
Commands == Writers \cup Performers

ASSUME ProjectAssumption ==
  /\ Recorders \cap Trainers = {} /\ Writers \cap Performers = {}
  /\ Parts \in [Writers -> Nat] /\ \A t \in Trainers : Parts[t] > 0
  /\ NoStamp \notin Stamps

File == [writers : SUBSET Writers, parts : Nat]
NoFile == [writers |-> {}, parts |-> 0]
Ended == {"success", "failure", "raced", "crashed", "killed"}
Places == {"start", "makeResults", "haveResults", "makeExamples", "haveExamples",
           "listed", "read", "picked", "busy", "done", "tested", "write"} \cup Ended

VARIABLES
  subdirs,    \* training_results/ and training_examples/, if they exist
  examples,   \* training_examples/: a file for each name
  results,    \* training_results/
  pc,         \* of each command
  name,       \* the name of the file it writes, or performs with
  listed,     \* the files it found: results if it performs, else examples
  taken,      \* what it read of them and accepted
  written,    \* the parts it has written
  began,      \* history: the files that were whole when it began
  past,       \* history: the results that were whole when its training was over
  faulty      \* history: the commands a write of which has failed

locals == <<name, listed, taken, written, began, past, faulty>>
vars == <<subdirs, examples, results, pc, locals>>

Exists(file) == file # NoFile
WholeBy(file, w) == file = [writers |-> {w}, parts |-> Parts[w]]
Whole(file) == \E w \in Writers : WholeBy(file, w)
WholeIn(dir) == {n \in Stamps : Whole(dir[n])}
\* The directory whose files a command reads.
Read(c) == IF c \in Performers THEN results ELSE examples

Init ==
  /\ subdirs = {}
  /\ examples = [n \in Stamps |-> NoFile] /\ results = [n \in Stamps |-> NoFile]
  /\ pc = [c \in Commands |-> "start"]
  /\ name = [c \in Commands |-> NoStamp] /\ written = [c \in Commands |-> 0]
  /\ listed = [c \in Commands |-> {}] /\ taken = [c \in Commands |-> [n \in {} |-> NoFile]]
  /\ began = [c \in Commands |-> {}] /\ past = [c \in Commands |-> {}]
  /\ faulty = {}

Goto(c, place) == pc' = [pc EXCEPT ![c] = place]
Move(c, from, to) == pc[c] = from /\ Goto(c, to)

-----------------------------------------------------------------------------
(* ConfigDirectory::process_directory.                                     *)

\* is_directory( _results_dir_name )
Start(c) ==
  /\ Move(c, "start", IF "results" \in subdirs THEN "haveResults" ELSE "makeResults")
  /\ began' = [began EXCEPT ![c] = WholeIn(Read(c))]
  /\ UNCHANGED <<subdirs, examples, results, name, listed, taken, written, past, faulty>>

\* make_directory: mkdir fails when the directory is there by now.
Make(c, place, dir, next) ==
  /\ pc[c] = place
  /\ Goto(c, IF dir \in subdirs THEN "raced" ELSE next)
  /\ subdirs' = subdirs \cup {dir}
  /\ UNCHANGED <<examples, results, locals>>

MakeResults(c) == Make(c, "makeResults", "results", "haveResults")

\* Slip: it is the other directory that is tested.
TestExamplesOther(c) ==
  /\ Move(c, "haveResults", IF "results" \in subdirs THEN "makeExamples" ELSE "haveExamples")
  /\ UNCHANGED <<subdirs, examples, results, locals>>

\* is_directory( _examples_dir_name )
TestExamples(c) ==
  /\ Move(c, "haveResults", IF "examples" \in subdirs THEN "haveExamples" ELSE "makeExamples")
  /\ UNCHANGED <<subdirs, examples, results, locals>>

MakeExamples(c) == Make(c, "makeExamples", "examples", "haveExamples")

Files(dir) == {n \in Stamps : Exists(dir[n])}

\* Slip: the entries of the directory are not read to the end.
ListFirst(c) ==
  /\ Move(c, "haveExamples", "listed")
  /\ \E s \in SUBSET Files(Read(c)) :
       /\ \A m, n \in s : m = n
       /\ listed' = [listed EXCEPT ![c] = s]
  /\ UNCHANGED <<subdirs, examples, results, name, taken, written, began, past, faulty>>

\* get_directory_filenames_and_subdirs, of the directory the command reads.
List(c) ==
  /\ Move(c, "haveExamples", "listed")
  /\ listed' = [listed EXCEPT ![c] = Files(Read(c))]
  /\ UNCHANGED <<subdirs, examples, results, name, taken, written, began, past, faulty>>

-----------------------------------------------------------------------------
(* What the commands begin with.                                           *)

\* get_timestamp_string: any time, whatever the others were given.
TakeTimestamp(c, n) == name' = [name EXCEPT ![c] = n]

\* record and import: the example's name.
Record(c) ==
  /\ c \in Recorders /\ Move(c, "listed", "busy")
  /\ \E n \in Stamps : TakeTimestamp(c, n)
  /\ UNCHANGED <<subdirs, examples, results, listed, taken, written, began, past, faulty>>

\* Trainer: it needs examples, and a name that is not taken.
Train(c) ==
  /\ c \in Trainers
  /\ \E n \in Stamps :
       /\ Move(c, "listed", IF listed[c] = {} \/ Exists(results[n]) THEN "failure" ELSE "read")
       /\ TakeTimestamp(c, n)
  /\ UNCHANGED <<subdirs, examples, results, listed, taken, written, began, past, faulty>>

\* perform: the results the configuration names, or the menu of them all.
Perform(c) ==
  /\ c \in Performers
  /\ \/ /\ \E n \in listed[c] : name' = [name EXCEPT ![c] = n]
        /\ Move(c, "listed", "picked")
     \/ Move(c, "listed", "read") /\ UNCHANGED name
  /\ UNCHANGED <<subdirs, examples, results, listed, taken, written, began, past, faulty>>

\* A file is read and accepted.
Accept(c, n) ==
  /\ taken' = [taken EXCEPT ![c] = [m \in DOMAIN @ \cup {n} |->
                                      IF m = n THEN Read(c)[n] ELSE @[m]]]
  /\ UNCHANGED <<subdirs, examples, results, name, listed, written, began, past, faulty>>

\* TrainingSequenceParser: of an example that is not whole the part that is
\* there may pass for an example, or be found wrong.
ReadExample(c) ==
  /\ c \in Trainers /\ pc[c] = "read"
  /\ \E n \in listed[c] \ DOMAIN taken[c] :
       \/ Accept(c, n) /\ UNCHANGED pc
       \/ ~Whole(examples[n]) /\ Goto(c, "failure")
            /\ UNCHANGED <<subdirs, examples, results, locals>>

\* Slip: what is there of a file is accepted.
MayParsePart(file) == file.parts > 0
\* json::parse.  What two have written over each other may happen to pass.
MayParse(file) == Whole(file) \/ Cardinality(file.writers) > 1
\* What it throws, invalid_argument, is a logic_error, which neither perform()
\* nor main() catches.
MayFail(file) == ~Whole(file)

\* perform reads every file for its menu.
ReadResults(c) ==
  /\ c \in Performers /\ pc[c] = "read"
  /\ \E n \in listed[c] \ DOMAIN taken[c] :
       \/ MayParse(results[n]) /\ Accept(c, n) /\ UNCHANGED pc
       \/ MayFail(results[n]) /\ Goto(c, "crashed")
            /\ UNCHANGED <<subdirs, examples, results, locals>>

\* pick_choice; "q" is one of the choices.
Pick(c) ==
  /\ c \in Performers /\ listed[c] = DOMAIN taken[c]
  /\ \/ Move(c, "read", "failure") /\ UNCHANGED name
     \/ /\ \E n \in listed[c] : name' = [name EXCEPT ![c] = n]
        /\ Move(c, "read", "picked")
  /\ UNCHANGED <<subdirs, examples, results, listed, taken, written, began, past, faulty>>

\* The results picked are read once more.
Load(c) ==
  \/ Move(c, "picked", "busy") /\ MayParse(results[name[c]]) /\ Accept(c, name[c])
  \/ Move(c, "picked", "crashed") /\ MayFail(results[name[c]])
       /\ UNCHANGED <<subdirs, examples, results, locals>>

\* The first epoch: adjust_events reads the first event of each example, and
\* one without events ends the program.
StartTraining(c) ==
  /\ c \in Trainers /\ listed[c] = DOMAIN taken[c]
  /\ Move(c, "read", IF \E n \in listed[c] : taken[c][n].parts = 0 THEN "crashed" ELSE "busy")
  /\ UNCHANGED <<subdirs, examples, results, locals>>

-----------------------------------------------------------------------------
(* What they end with.                                                     *)

\* ctrl-c, or the training is over.
Done(c) ==
  /\ Move(c, "busy", IF c \in Performers THEN "success" ELSE "done")
  /\ past' = [past EXCEPT ![c] = WholeIn(results)]
  /\ UNCHANGED <<subdirs, examples, results, name, listed, taken, written, began, faulty>>

\* Slip: a file that appeared while the training ran goes unnoticed.
TestNameSkipped(c) ==
  /\ c \in Trainers /\ Move(c, "done", "tested")
  /\ UNCHANGED <<subdirs, examples, results, locals>>

\* TrainingResults::write: is_regular_file( _filename )
TestName(c) ==
  /\ c \in Trainers
  /\ Move(c, "done", IF Exists(results[name[c]]) THEN "failure" ELSE "tested")
  /\ UNCHANGED <<subdirs, examples, results, locals>>

\* The file that a command writes.
Put(c, file) ==
  IF c \in Trainers
  THEN results' = [results EXCEPT ![name[c]] = file] /\ UNCHANGED examples
  ELSE examples' = [examples EXCEPT ![name[c]] = file] /\ UNCHANGED results
Own(c) == IF c \in Trainers THEN results[name[c]] ELSE examples[name[c]]

\* ofstream outfile( filename ), which empties a file that is there.
Open(c) ==
  /\ Move(c, IF c \in Trainers THEN "tested" ELSE "done", "write")
  /\ Put(c, [writers |-> {c}, parts |-> 0])
  /\ UNCHANGED <<subdirs, locals>>

\* A part reaches the disk.
Write(c) ==
  /\ pc[c] = "write" /\ written[c] < Parts[c]
  /\ written' = [written EXCEPT ![c] = @ + 1]
  /\ Put(c, [writers |-> Own(c).writers \cup {c}, parts |-> Own(c).parts + 1])
  /\ UNCHANGED <<subdirs, pc, name, listed, taken, began, past, faulty>>

\* The file cannot be opened, or no more of it written: the stream ignores
\* what it is given from then on.
Fail(c) ==
  /\ c \in Writers /\ faulty' = faulty \cup {c}
  /\ \/ Move(c, IF c \in Trainers THEN "tested" ELSE "done", "success")
     \/ Move(c, "write", "success") /\ written[c] < Parts[c]
  /\ UNCHANGED <<subdirs, examples, results, name, listed, taken, written, began, past>>

Close(c) ==
  /\ Move(c, "write", "success") /\ written[c] = Parts[c]
  /\ UNCHANGED <<subdirs, examples, results, locals>>

Kill(c) ==
  /\ pc[c] \notin Ended \cup {"start"} /\ Goto(c, "killed")
  /\ UNCHANGED <<subdirs, examples, results, locals>>

Command(c) ==
  \/ Start(c) \/ MakeResults(c) \/ TestExamples(c) \/ MakeExamples(c) \/ List(c)
  \/ Record(c) \/ Train(c) \/ Perform(c)
  \/ ReadExample(c) \/ ReadResults(c) \/ Pick(c) \/ Load(c) \/ StartTraining(c)
  \/ Done(c) \/ TestName(c) \/ Open(c) \/ Write(c) \/ Fail(c) \/ Close(c)
  \/ Kill(c)

Next == \E c \in Commands : Command(c)

Spec == Init /\ [][Next]_vars

-----------------------------------------------------------------------------
TypeOK ==
  /\ subdirs \subseteq {"results", "examples"}
  /\ examples \in [Stamps -> File] /\ results \in [Stamps -> File]
  /\ pc \in [Commands -> Places] /\ name \in [Commands -> Stamps \cup {NoStamp}]
  /\ listed \in [Commands -> SUBSET Stamps] /\ written \in [Commands -> Nat]
  /\ began \in [Commands -> SUBSET Stamps] /\ past \in [Commands -> SUBSET Stamps]
  /\ faulty \subseteq Writers
  /\ taken = [c \in Commands |-> taken[c]]
  /\ \A c \in Commands :
       DOMAIN taken[c] \subseteq Stamps /\ taken[c] \in [DOMAIN taken[c] -> File]

\* Two writers of a directory were given the same time.
Shared(writers, n) == \E c, d \in writers : c # d /\ name[c] = n /\ name[d] = n

\* What is once whole stays as it is.  A recording opens its file without
\* looking whether there is one, so an example is kept as long as no other
\* recording has its name.  Results are kept even from a training that has
\* their name, however long ago it chose it, if they were there by the time it
\* was over.  That "none of your past results will be overwritten"
\* (docs/topics.md:414) holds up to there: of two trainings of one name that are
\* over together, each finds no file (training_results.cpp:420), and what the one
\* then saves the other empties.
ExampleKept(n) ==
  Whole(examples[n]) /\ ~Shared(Recorders, n) => examples'[n] = examples[n]
ResultsKept(n) ==
  Whole(results[n]) /\ results'[n] # results[n] =>
    \E c \in Trainers : /\ Shared(Trainers, n) /\ name[c] = n /\ n \notin past[c]
                        /\ <<pc[c], written[c]>>' # <<pc[c], written[c]>>
PastKept == [][\A n \in Stamps : ExampleKept(n) /\ ResultsKept(n)]_vars

\* Two commands may find a directory missing and both make it, and one of
\* them ends with an error (config_directory.cpp:47); but only in a project
\* without examples or results: one can train any number of networks at once.
FreshDirectoryRace ==
  \A c \in Commands :
    /\ pc[c] \in {"makeResults", "makeExamples"} => began[c] = {}
    /\ pc[c] = "raced" => began[c] = {}

\* Who writes the files that a command reads.
WritersFor(c) == IF c \in Performers THEN Trainers ELSE Recorders

\* A training uses every example that was recorded in full before it began,
\* and a performance can choose among all the results that were saved in
\* full, however many others are being written: those are read as they are
\* on the disk between the listing and the reading.  Only a file that another
\* writer was given the name of may be lost.
ReadsWhatWasSaved ==
  \A c \in Trainers \cup Performers :
    \/ pc[c] \in {"busy", "done", "tested", "write"} /\ c \in Trainers
    \/ pc[c] = "read" /\ listed[c] = DOMAIN taken[c]
    => \A n \in began[c] :
         n \in DOMAIN taken[c] /\ (Whole(taken[c][n]) \/ Shared(WritersFor(c), n))

\* A performance runs on results that a training has saved in full and that
\* are still there: a file that was listed or offered while it was being
\* written, or left unfinished by a kill or a full disk, is never performed,
\* unless two trainings wrote it.
PerformsWholeResults ==
  \A c \in Performers :
    pc[c] = "busy" /\ ~Shared(Trainers, name[c]) =>
      Whole(results[name[c]]) /\ taken[c][name[c]] = results[name[c]]
=============================================================================
