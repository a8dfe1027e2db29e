--------------------------- MODULE ProjectProofs ----------------------------
(***************************************************************************)
(* Proofs about Project, for any number of commands, of parts of what they *)
(* write and of timestamps.                                                *)
(***************************************************************************)
EXTENDS Project, FiniteSetTheorems, TLAPS

\* Where a writer has a name, where it has none yet, and where it has opened its
\* file or never will.
Named == {"read", "busy", "done", "tested", "write"}
Unnamed == {"start", "makeResults", "haveResults", "makeExamples", "haveExamples", "listed"}
Past == Ended \cup {"write"}

\* A command is in the places of its kind, and has a name when it needs one.
PlacesInv ==
  /\ \A c \in Commands : pc[c] \in {"read", "tested"} => c \notin Recorders
  /\ \A c \in Commands : pc[c] = "picked" => c \in Performers
  /\ \A c \in Commands : pc[c] \in {"done", "tested", "write"} => c \in Writers
  /\ \A c \in Commands :
       pc[c] = "picked" \/ (c \in Writers /\ pc[c] \in Named) => name[c] \in Stamps

\* From where on the directories are known to be there.
AfterDirs == {"haveExamples", "listed", "read", "picked", "busy", "done", "tested", "write"}

\* A command that has passed a directory, and every file, has found or made it;
\* so has a command that began with files.
DirsInv ==
  /\ \A c \in Commands :
       /\ pc[c] \in {"haveResults", "makeExamples"} \cup AfterDirs => "results" \in subdirs
       /\ pc[c] \in AfterDirs => "examples" \in subdirs
       /\ began[c] # {} => {"results", "examples"} \subseteq subdirs
  /\ \A n \in Stamps :
       Exists(examples[n]) \/ Exists(results[n]) => {"results", "examples"} \subseteq subdirs

\* A file is written by those that have its name, and what one alone has written
\* is all it has written.
FilesOf(dir, writers, names, places, parts) ==
  \A n \in Stamps :
    /\ \A w \in dir[n].writers : w \in writers /\ names[w] = n /\ places[w] \in Past
    /\ \A w \in writers : dir[n].writers = {w} => dir[n].parts = parts[w]

NamesInv ==
  /\ FilesOf(examples, Recorders, name, pc, written)
  /\ FilesOf(results, Trainers, name, pc, written)
  /\ \A c \in Writers :
       /\ pc[c] \in Unnamed => name[c] = NoStamp
       /\ pc[c] \notin Past => written[c] = 0
       /\ pc[c] = "write" => written[c] <= Parts[c] /\ Own(c).writers # {}

\* Results that were whole when a training was over are still there, and it
\* does not go on when they have its name.
PastInv ==
  \A c \in Trainers :
    /\ \A n \in past[c] : Exists(results[n])
    /\ pc[c] \in {"tested", "write"} => name[c] \notin past[c]

\* What was whole when a command began still is, is listed, and is read whole,
\* unless two have its name.
ReadInv ==
  \A c \in Commands :
    /\ \A n \in began[c] : /\ Exists(Read(c)[n])
                           /\ Whole(Read(c)[n]) \/ Shared(WritersFor(c), n)
    /\ pc[c] \in AfterDirs \ {"haveExamples"} => began[c] \subseteq listed[c]
    /\ pc[c] = "start" => DOMAIN taken[c] = {}
    /\ \A n \in DOMAIN taken[c] :
         n \in began[c] => Whole(taken[c][n]) \/ Shared(WritersFor(c), n)
    /\ c \in Trainers /\ pc[c] \in {"busy", "done", "tested", "write"}
         => listed[c] \subseteq DOMAIN taken[c]

\* What a performance has read is whole and has not changed since, unless two
\* have its name.
PerformInv ==
  \A c \in Performers :
    /\ \A n \in DOMAIN taken[c] : \/ Shared(Trainers, n)
                                  \/ Whole(taken[c][n]) /\ taken[c][n] = results[n]
    /\ pc[c] = "busy" => name[c] \in DOMAIN taken[c]

Inv ==
  /\ TypeOK /\ PlacesInv /\ DirsInv /\ FreshDirectoryRace
  /\ NamesInv /\ PastInv /\ ReadInv /\ PerformInv

-----------------------------------------------------------------------------
(* Types.                                                                  *)

\* A project begins empty.
LEMMA InitType == Init => TypeOK
  <1> SUFFICES ASSUME Init PROVE TypeOK
    OBVIOUS
  <1>1. NoFile \in File
    BY DEF File, NoFile
  <1> QED
    BY <1>1 DEF Init, TypeOK, Places

\* What a command accepts is a file, under a name.
LEMMA AcceptType ==
  ASSUME TypeOK, NEW c \in Commands, NEW n \in Stamps, Accept(c, n)
  PROVE  /\ taken' = [d \in Commands |-> taken'[d]]
         /\ \A d \in Commands :
              DOMAIN taken'[d] \subseteq Stamps /\ taken'[d] \in [DOMAIN taken'[d] -> File]
  <1> DEFINE new == [m \in DOMAIN taken[c] \cup {n} |->
                       IF m = n THEN Read(c)[n] ELSE taken[c][m]]
  <1>1. Read(c)[n] \in File
    BY DEF TypeOK, Read
  <1>2. \A m \in DOMAIN taken[c] : taken[c][m] \in File
    BY DEF TypeOK
  <1>3. new \in [DOMAIN taken[c] \cup {n} -> File] /\ DOMAIN taken[c] \cup {n} \subseteq Stamps
    BY <1>1, <1>2 DEF TypeOK
  <1>4. taken' = [taken EXCEPT ![c] = new]
    BY DEF Accept
  <1>5. DOMAIN taken = Commands
    BY DEF TypeOK
  <1>6. taken' = [d \in Commands |-> IF d = c THEN new ELSE taken[d]]
    BY <1>4, <1>5
  <1> HIDE DEF new
  <1>7. taken'[c] = new /\ \A d \in Commands : d # c => taken'[d] = taken[d]
    BY <1>6
  <1>8. taken' = [d \in Commands |-> taken'[d]]
    BY <1>6, <1>7
  <1>9. DOMAIN new = DOMAIN taken[c] \cup {n}
    BY <1>3
  <1> QED
    BY <1>3, <1>7, <1>8, <1>9 DEF TypeOK

\* What a writer puts into its file is a file.
LEMMA PutType ==
  ASSUME TypeOK, NEW c \in Writers, NEW file \in File, Put(c, file)
  PROVE  examples' \in [Stamps -> File] /\ results' \in [Stamps -> File]
  BY DEF TypeOK, Put, Writers, Commands

\* Every step keeps the types, and each command where it can be.
LEMMA NextType == TypeOK /\ PlacesInv /\ [Next]_vars => TypeOK' /\ PlacesInv'
  <1> SUFFICES ASSUME TypeOK, PlacesInv, [Next]_vars PROVE TypeOK' /\ PlacesInv'
    OBVIOUS
  <1> USE ProjectAssumption DEF PlacesInv, locals, Goto, Move, Places, Ended, Named
  <1>0. CASE UNCHANGED vars
    BY <1>0 DEF vars, TypeOK
  <1>1. ASSUME NEW c \in Commands, Start(c) PROVE TypeOK' /\ PlacesInv'
    <2>1. WholeIn(Read(c)) \in SUBSET Stamps
      BY DEF WholeIn
    <2>2. TypeOK'
      BY <1>1, <2>1 DEF Start, TypeOK
    <2> QED
      BY <1>1, <2>2 DEF Start, TypeOK
  <1>2. ASSUME NEW c \in Commands, MakeResults(c) \/ MakeExamples(c) PROVE TypeOK' /\ PlacesInv'
    <2>1. TypeOK'
      BY <1>2 DEF MakeResults, MakeExamples, Make, TypeOK
    <2>2. /\ name' = name /\ \A d \in Commands : d # c => pc'[d] = pc[d]
          /\ pc'[c] \in {"raced", "haveResults", "haveExamples"}
      BY <1>2 DEF MakeResults, MakeExamples, Make, TypeOK
    <2> QED
      BY <2>1, <2>2
  <1>3. ASSUME NEW c \in Commands,
               TestExamples(c) \/ StartTraining(c) \/ TestName(c) \/ Close(c) \/ Kill(c)
        PROVE  TypeOK' /\ PlacesInv'
    <2>1. TypeOK'
      BY <1>3 DEF TestExamples, StartTraining, TestName, Close, Kill, TypeOK
    <2>2. name' = name
      BY <1>3 DEF TestExamples, StartTraining, TestName, Close, Kill
    <2>3. CASE TestExamples(c) \/ StartTraining(c) \/ TestName(c)
      BY <2>1, <2>2, <2>3 DEF TestExamples, StartTraining, TestName, TypeOK, Writers
    <2>4. CASE Close(c) \/ Kill(c)
      BY <2>1, <2>2, <2>4 DEF Close, Kill, TypeOK
    <2> QED
      BY <1>3, <2>3, <2>4
  <1>4. ASSUME NEW c \in Commands, Done(c) PROVE TypeOK' /\ PlacesInv'
    <2>1. WholeIn(results) \in SUBSET Stamps
      BY DEF WholeIn
    <2> QED
      BY <1>4, <2>1 DEF Done, TypeOK, Commands, Writers
  <1>5. ASSUME NEW c \in Commands, List(c) PROVE TypeOK' /\ PlacesInv'
    <2>1. Files(Read(c)) \in SUBSET Stamps
      BY DEF Files
    <2> QED
      BY <1>5, <2>1 DEF List, TypeOK
  <1>6. ASSUME NEW c \in Commands, Record(c) \/ Train(c) PROVE TypeOK' /\ PlacesInv'
    <2>1. name' \in [Commands -> Stamps \cup {NoStamp}]
      BY <1>6 DEF Record, Train, TakeTimestamp, TypeOK
    <2>2. TypeOK'
      BY SMTT(20), <1>6, <2>1 DEF Record, Train, TypeOK
    <2>3. \A d \in Commands : d # c => pc'[d] = pc[d] /\ name'[d] = name[d]
      BY <1>6 DEF Record, Train, TakeTimestamp, TypeOK
    <2>4. name'[c] \in Stamps /\ c \in Writers
      BY <1>6 DEF Record, Train, TakeTimestamp, TypeOK, Writers
    <2>5. pc'[c] = "busy" \/ (c \in Trainers /\ pc'[c] \in {"read", "failure"})
      BY <1>6 DEF Record, Train, TypeOK
    <2> QED
      BY <2>2, <2>3, <2>4, <2>5
  <1>7. ASSUME NEW c \in Commands, Perform(c) \/ Pick(c) PROVE TypeOK' /\ PlacesInv'
    <2>1. name' \in [Commands -> Stamps \cup {NoStamp}]
      BY <1>7 DEF Perform, Pick, TypeOK
    <2>2. TypeOK'
      BY SMTT(20), <1>7, <2>1 DEF Perform, Pick, TypeOK
    <2>3. /\ \A d \in Commands : d # c => pc'[d] = pc[d] /\ name'[d] = name[d]
          /\ c \in Performers /\ c \notin Writers /\ c \notin Recorders
      BY <1>7 DEF Perform, Pick, TypeOK, Writers
    <2>4. pc'[c] \in {"read", "failure"} \/ (pc'[c] = "picked" /\ name'[c] \in Stamps)
      BY <1>7 DEF Perform, Pick, TypeOK
    <2> QED
      BY <2>2, <2>3, <2>4
  <1>8. ASSUME NEW c \in Commands, ReadExample(c) \/ ReadResults(c) PROVE TypeOK' /\ PlacesInv'
    <2>1. ASSUME NEW n \in Stamps, Accept(c, n), UNCHANGED pc PROVE TypeOK' /\ PlacesInv'
      <3>1. UNCHANGED <<subdirs, examples, results, pc, name, listed, written, began, past, faulty>>
        BY <2>1 DEF Accept
      <3> QED
        BY <2>1, <3>1, AcceptType DEF TypeOK
    <2>2. CASE (Goto(c, "failure") \/ Goto(c, "crashed"))
               /\ UNCHANGED <<subdirs, examples, results, locals>>
      <3>1. /\ name' = name /\ \A d \in Commands : d # c => pc'[d] = pc[d]
            /\ pc'[c] \in {"failure", "crashed"} /\ pc' \in [Commands -> Places]
        BY <2>2 DEF TypeOK
      <3>2. TypeOK'
        BY <2>2, <3>1 DEF TypeOK
      <3>3. PlacesInv'
        BY <3>1
      <3> QED
        BY <3>2, <3>3
    <2>3. \A n \in listed[c] : n \in Stamps
      BY DEF TypeOK
    <2>4. CASE ReadExample(c)
      BY <2>1, <2>2, <2>3, <2>4 DEF ReadExample
    <2>5. CASE ReadResults(c)
      BY <2>1, <2>2, <2>3, <2>5 DEF ReadResults
    <2> QED
      BY <1>8, <2>4, <2>5
  <1>9. ASSUME NEW c \in Commands, Load(c) PROVE TypeOK' /\ PlacesInv'
    <2>1. CASE Accept(c, name[c]) /\ Goto(c, "busy")
      <3>1. UNCHANGED <<subdirs, examples, results, name, listed, written, began, past, faulty>>
        BY <2>1 DEF Accept
      <3>2. name[c] \in Stamps
        BY <1>9 DEF Load
      <3>3. TypeOK'
        BY <2>1, <3>1, <3>2, AcceptType DEF TypeOK
      <3>4. /\ name' = name /\ \A d \in Commands : d # c => pc'[d] = pc[d]
            /\ pc'[c] = "busy"
        BY <2>1, <3>1 DEF TypeOK
      <3> QED
        BY <3>2, <3>3, <3>4
    <2>2. CASE Goto(c, "crashed") /\ UNCHANGED <<subdirs, examples, results, locals>>
      BY <2>2 DEF TypeOK
    <2> QED
      BY <1>9, <2>1, <2>2 DEF Load
  <1>10. ASSUME NEW c \in Commands, Open(c) PROVE TypeOK' /\ PlacesInv'
    <2>1. c \in Writers /\ [writers |-> {c}, parts |-> 0] \in File
      BY <1>10 DEF Open, File
    <2> QED
      BY <1>10, <2>1, PutType DEF Open, TypeOK
  <1>11. ASSUME NEW c \in Commands, Write(c) PROVE TypeOK' /\ PlacesInv'
    <2>1. c \in Writers /\ Own(c) \in File
      BY <1>11 DEF Write, Own, TypeOK, Commands
    <2>2. [writers |-> Own(c).writers \cup {c}, parts |-> Own(c).parts + 1] \in File
      BY <2>1 DEF File
    <2> QED
      BY <1>11, <2>1, <2>2, PutType DEF Write, TypeOK
  <1>12. ASSUME NEW c \in Commands, Fail(c) PROVE TypeOK' /\ PlacesInv'
    BY <1>12 DEF Fail, TypeOK
  <1> QED
    BY <1>0, <1>1, <1>2, <1>3, <1>4, <1>5, <1>6, <1>7, <1>8, <1>9, <1>10, <1>11, <1>12
    DEF Next, Command

-----------------------------------------------------------------------------
(* Names and files.                                                        *)

\* What a command does when it does not write, as the names are concerned.
Moves ==
  /\ UNCHANGED <<examples, results, written>>
  /\ \A w \in Writers :
       /\ pc[w] \in Past => pc'[w] \in Past
       /\ pc'[w] = "write" => pc[w] = "write"
       /\ pc[w] # "listed" => name'[w] = name[w]
       /\ pc'[w] \in Unnamed => name'[w] = NoStamp

\* A command's step, as the names are concerned, is one of its place and of
\* nobody else's.
LEMMA StepForNames ==
  ASSUME TypeOK, PlacesInv, NamesInv, [Next]_vars
  PROVE  Moves \/ \E c \in Writers : Open(c) \/ Write(c)
  <1>w. \A w \in Writers : w \in Commands
    BY DEF Commands
  <1> USE <1>w, ProjectAssumption
      DEF PlacesInv, NamesInv, locals, Goto, Move, Named, Unnamed, Past, Ended, Moves
  <1>0. CASE UNCHANGED vars
    BY <1>0 DEF vars
  <1>1. ASSUME NEW c \in Commands,
               Start(c) \/ MakeResults(c) \/ MakeExamples(c) \/ TestExamples(c) \/ List(c)
        PROVE  Moves
    BY <1>1 DEF Start, MakeResults, MakeExamples, Make, TestExamples, List, TypeOK
  <1>2. ASSUME NEW c \in Commands, StartTraining(c) \/ Done(c) \/ TestName(c) PROVE Moves
    BY <1>2 DEF StartTraining, Done, TestName, TypeOK
  <1>3. ASSUME NEW c \in Commands, Fail(c) \/ Close(c) \/ Kill(c) PROVE Moves
    BY <1>3 DEF Fail, Close, Kill, TypeOK
  <1>4. ASSUME NEW c \in Commands, Perform(c) \/ Pick(c) PROVE Moves
    <2>1. c \notin Writers
      BY <1>4 DEF Perform, Pick
    <2> QED
      BY <1>4, <2>1 DEF Perform, Pick, TypeOK
  <1>5. ASSUME NEW c \in Commands, ReadExample(c) \/ ReadResults(c) PROVE Moves
    <2>1. UNCHANGED <<examples, results, written, name>>
      BY <1>5 DEF ReadExample, ReadResults, Accept
    <2>2. UNCHANGED pc \/ Goto(c, "failure") \/ Goto(c, "crashed")
      BY <1>5 DEF ReadExample, ReadResults
    <2>3. pc[c] = "read"
      BY <1>5 DEF ReadExample, ReadResults
    <2> QED
      BY <2>1, <2>2, <2>3 DEF TypeOK
  <1>6. ASSUME NEW c \in Commands, Load(c) PROVE Moves
    <2>1. c \notin Writers
      BY <1>6 DEF Load
    <2>2. UNCHANGED <<examples, results, written, name>>
      BY <1>6 DEF Load, Accept
    <2> QED
      BY <1>6, <2>1, <2>2 DEF Load, TypeOK
  <1>7. ASSUME NEW c \in Commands, Open(c) \/ Write(c) PROVE c \in Writers
    BY <1>7 DEF Open, Write
  <1>8. ASSUME NEW c \in Commands, Record(c) \/ Train(c) PROVE Moves
    <2>1. PICK n \in Stamps : name' = [name EXCEPT ![c] = n]
      BY <1>8 DEF Record, Train, TakeTimestamp
    <2>2. pc[c] = "listed" /\ c \in Writers /\ UNCHANGED <<examples, results, written>>
      BY <1>8 DEF Record, Train, Writers
    <2>3. \E p \in {"busy", "read", "failure"} : Goto(c, p)
      BY <1>8 DEF Record, Train
    <2> QED
      BY <2>1, <2>2, <2>3 DEF TypeOK
  <1> QED
    BY <1>0, <1>1, <1>2, <1>3, <1>4, <1>5, <1>6, <1>7, <1>8 DEF Next, Command

\* Files stay as they should while those that write them stay where they are.
LEMMA FilesLeft ==
  ASSUME NEW dir, NEW writers, NEW names, NEW places, NEW parts,
         NEW names2, NEW places2, NEW parts2,
         FilesOf(dir, writers, names, places, parts),
         \A w \in writers : places[w] \in Past =>
           names2[w] = names[w] /\ places2[w] \in Past /\ parts2[w] = parts[w]
  PROVE  FilesOf(dir, writers, names2, places2, parts2)
  <1> SUFFICES ASSUME NEW n \in Stamps
               PROVE  /\ \A w \in dir[n].writers :
                           w \in writers /\ names2[w] = n /\ places2[w] \in Past
                      /\ \A w \in writers : dir[n].writers = {w} => dir[n].parts = parts2[w]
    BY DEF FilesOf
  <1>1. \A w \in dir[n].writers : w \in writers /\ names[w] = n /\ places[w] \in Past
    BY DEF FilesOf
  <1>2. \A w \in writers : dir[n].writers = {w} => dir[n].parts = parts[w]
    BY DEF FilesOf
  <1> QED
    BY <1>1, <1>2

\* Of a file with what old holds, the writer c opens a new one or writes a part.
NextFile(old, c, file, parts, parts2) ==
  \/ file = [writers |-> {c}, parts |-> 0] /\ parts2[c] = 0
  \/ /\ old.writers # {} /\ parts2[c] = parts[c] + 1
     /\ file = [writers |-> old.writers \cup {c}, parts |-> old.parts + 1]
OneWrites(writers, c, places, parts, places2, parts2) ==
  /\ c \in writers /\ places2[c] \in Past
  /\ \A w \in writers : w # c => places2[w] = places[w] /\ parts2[w] = parts[w]

\* And one that is opened or written is again what its writers have written.
LEMMA FilesWritten ==
  ASSUME NEW dir \in [Stamps -> File], NEW writers \in SUBSET Writers,
         NEW names, NEW places, NEW parts, NEW places2, NEW parts2, NEW c, NEW file,
         FilesOf(dir, writers, names, places, parts), names[c] \in Stamps,
         OneWrites(writers, c, places, parts, places2, parts2),
         NextFile(dir[names[c]], c, file, parts, parts2)
  PROVE  FilesOf([dir EXCEPT ![names[c]] = file], writers, names, places2, parts2)
  <1> USE DEF OneWrites, NextFile
  <1> DEFINE dir2 == [dir EXCEPT ![names[c]] = file]
  <1>1. \A n \in Stamps : dir2[n] = IF n = names[c] THEN file ELSE dir[n]
    OBVIOUS
  <1>2. \A n \in Stamps : \A w \in dir[n].writers : w \in writers /\ names[w] = n /\ places[w] \in Past
    BY DEF FilesOf
  <1>3. \A n \in Stamps : \A w \in writers : dir[n].writers = {w} => dir[n].parts = parts[w]
    BY DEF FilesOf
  <1> HIDE DEF dir2
  <1>4. ASSUME NEW n \in Stamps, n # names[c]
        PROVE  /\ \A w \in dir2[n].writers : w \in writers /\ names[w] = n /\ places2[w] \in Past
               /\ \A w \in writers : dir2[n].writers = {w} => dir2[n].parts = parts2[w]
    <2>1. dir2[n] = dir[n] /\ c \notin dir[n].writers
      BY <1>1, <1>2, <1>4
    <2> QED
      BY <1>2, <1>3, <2>1
  <1>5. /\ \A w \in file.writers : w \in writers /\ names[w] = names[c] /\ places2[w] \in Past
        /\ \A w \in writers : file.writers = {w} => file.parts = parts2[w]
    <2>1. CASE file = [writers |-> {c}, parts |-> 0] /\ parts2[c] = 0
      BY <2>1
    <2>2. CASE /\ dir[names[c]].writers # {} /\ parts2[c] = parts[c] + 1
               /\ file = [writers |-> dir[names[c]].writers \cup {c}, parts |-> dir[names[c]].parts + 1]
      <3> DEFINE old == dir[names[c]]
      <3>1. file.writers = old.writers \cup {c} /\ file.parts = old.parts + 1
        BY <2>2
      <3>2. \A w \in old.writers : w \in writers /\ names[w] = names[c] /\ places[w] \in Past
        BY <1>2
      <3>3. \A w \in file.writers : w \in writers /\ names[w] = names[c] /\ places2[w] \in Past
        BY <3>1, <3>2
      <3>4. ASSUME NEW w \in writers, file.writers = {w} PROVE file.parts = parts2[w]
        <4>1. w = c /\ old.writers = {c}
          BY <2>2, <3>1, <3>4
        <4>2. old.parts = parts[c]
          BY <1>3, <4>1
        <4> QED
          BY <2>2, <3>1, <4>1, <4>2
      <3> QED
        BY <3>3, <3>4
    <2> QED
      BY <2>1, <2>2
  <1>6. dir2[names[c]] = file
    BY <1>1
  <1> QED
    BY <1>4, <1>5, <1>6 DEF FilesOf, dir2

\* What opening and writing a file have in common.
Puts(c, file) ==
  /\ c \in Writers /\ name[c] \in Stamps /\ Put(c, file) /\ c \in file.writers
  /\ pc[c] \in {"done", "tested", "write"} /\ (c \in Trainers => pc[c] # "done")
  /\ pc' = [pc EXCEPT ![c] = "write"]
  /\ \E k \in Nat : /\ k <= Parts[c] /\ written' = [written EXCEPT ![c] = k]
                    /\ \/ pc[c] # "write" /\ k = 0 /\ file = [writers |-> {c}, parts |-> 0]
                       \/ /\ pc[c] = "write" /\ k = written[c] + 1
                          /\ Own(c).writers # {}
                          /\ file = [writers |-> Own(c).writers \cup {c}, parts |-> Own(c).parts + 1]
  /\ UNCHANGED <<subdirs, name, listed, taken, began, past, faulty>>

LEMMA OpenOrWrite ==
  ASSUME TypeOK, PlacesInv, NamesInv, NEW c \in Commands, Open(c) \/ Write(c)
  PROVE  \E file \in File : Puts(c, file)
  <1> USE ProjectAssumption DEF PlacesInv, NamesInv, locals, Goto, Move, Named, Past, Ended
  <1>1. c \in Writers /\ Parts[c] \in Nat /\ written[c] \in Nat
    BY DEF Open, Write, TypeOK
  <1>2. name[c] \in Stamps
    BY <1>1 DEF Open, Write
  <1>3. CASE Open(c)
    <2> DEFINE file == [writers |-> {c}, parts |-> 0]
    <2>1. pc[c] \in {"done", "tested"} /\ written[c] = 0 /\ (c \in Trainers => pc[c] # "done")
      BY <1>1, <1>3 DEF Open
    <2>2. written' = [written EXCEPT ![c] = 0]
      BY <1>3, <2>1 DEF Open, TypeOK
    <2>3. pc' = [pc EXCEPT ![c] = "write"] /\ Put(c, file)
      BY <1>3 DEF Open
    <2>4. UNCHANGED <<subdirs, name, listed, taken, began, past, faulty>>
      BY <1>3 DEF Open
    <2>5. file \in File /\ c \in file.writers /\ 0 \in Nat /\ 0 <= Parts[c]
      BY <1>1 DEF File
    <2> HIDE DEF file
    <2>6. Puts(c, file)
      BY <1>1, <1>2, <2>1, <2>2, <2>3, <2>4, <2>5 DEF Puts, file
    <2> QED
      BY <2>5, <2>6
  <1>4. CASE Write(c)
    <2> DEFINE file == [writers |-> Own(c).writers \cup {c}, parts |-> Own(c).parts + 1]
    <2>1. pc[c] = "write" /\ written[c] < Parts[c] /\ Own(c).writers # {}
      BY <1>1, <1>4 DEF Write
    <2>2. /\ written' = [written EXCEPT ![c] = written[c] + 1] /\ Put(c, file)
          /\ UNCHANGED <<subdirs, pc, name, listed, taken, began, past, faulty>>
      BY <1>4 DEF Write
    <2>3. pc' = [pc EXCEPT ![c] = "write"]
      BY <2>1, <2>2 DEF TypeOK
    <2>4. written[c] + 1 \in Nat /\ written[c] + 1 <= Parts[c]
      BY <1>1, <2>1
    <2>5. Own(c) \in File
      BY <1>1, <1>2 DEF Own, TypeOK
    <2>6. file \in File /\ c \in file.writers
      BY <1>1, <2>5 DEF File
    <2> HIDE DEF file
    <2>7. Puts(c, file)
      BY <1>1, <1>2, <2>1, <2>2, <2>3, <2>4, <2>6 DEF Puts, file
    <2> QED
      BY <2>6, <2>7
  <1> QED
    BY <1>3, <1>4

\* A step that changes no file moves the commands, and one that does, puts.
LEMMA MoveOrPut ==
  ASSUME TypeOK, PlacesInv, NamesInv, [Next]_vars
  PROVE  Moves \/ \E c \in Writers, file \in File : Puts(c, file)
  <1>1. \A w \in Writers : w \in Commands
    BY DEF Commands
  <1> QED
    BY <1>1, StepForNames, OpenOrWrite

\* Every step keeps the files to those that have their names.
LEMMA NextNames ==
  ASSUME TypeOK, PlacesInv, NamesInv, [Next]_vars
  PROVE  NamesInv'
  <1>0. /\ \A w \in Writers : w \in Commands /\ Parts[w] \in Nat /\ written[w] \in Nat
        /\ Writers = Recorders \cup Trainers /\ Recorders \cap Trainers = {}
    BY ProjectAssumption DEF TypeOK, Commands, Writers
  <1>1. CASE Moves
    <2>1. \A w \in Writers : pc[w] \in Past =>
            name'[w] = name[w] /\ pc'[w] \in Past /\ written'[w] = written[w]
      BY <1>1 DEF Moves, Past, Ended
    <2>2. FilesOf(examples, Recorders, name, pc, written)' /\ FilesOf(results, Trainers, name, pc, written)'
      <3>1. examples' = examples /\ results' = results
        BY <1>1 DEF Moves
      <3>2. FilesOf(examples, Recorders, name', pc', written')
        BY <1>0, <2>1, FilesLeft DEF NamesInv
      <3>3. FilesOf(results, Trainers, name', pc', written')
        BY <1>0, <2>1, FilesLeft DEF NamesInv
      <3> QED
        BY <3>1, <3>2, <3>3
    <2>3. ASSUME NEW w \in Writers, pc'[w] = "write"
          PROVE  written'[w] <= Parts[w] /\ Own(w)'.writers # {}
      <3>1. pc[w] = "write" /\ name'[w] = name[w] /\ UNCHANGED <<examples, results, written>>
        BY <1>1, <2>3 DEF Moves
      <3> QED
        BY <3>1 DEF NamesInv, Own
    <2>4. \A w \in Writers : /\ pc'[w] \in Unnamed => name'[w] = NoStamp
                             /\ pc'[w] \notin Past => written'[w] = 0
      BY <1>1 DEF Moves, NamesInv
    <2>q. \A w \in Writers :
             /\ pc'[w] \in Unnamed => name'[w] = NoStamp
             /\ pc'[w] \notin Past => written'[w] = 0
             /\ pc'[w] = "write" => written'[w] <= Parts[w] /\ Own(w)'.writers # {}
      BY <2>3, <2>4
    <2> QED
      BY <2>2, <2>q DEF NamesInv, Past, Ended, Unnamed
  <1>2. ASSUME NEW c \in Writers, NEW file \in File, Puts(c, file) PROVE NamesInv'
    <2>1. PICK k \in Nat :
            /\ k <= Parts[c] /\ written' = [written EXCEPT ![c] = k]
            /\ \/ pc[c] # "write" /\ k = 0 /\ file = [writers |-> {c}, parts |-> 0]
               \/ /\ pc[c] = "write" /\ k = written[c] + 1 /\ Own(c).writers # {}
                  /\ file = [writers |-> Own(c).writers \cup {c}, parts |-> Own(c).parts + 1]
      BY <1>2 DEF Puts
    <2>p. name' = name /\ name[c] \in Stamps /\ pc' = [pc EXCEPT ![c] = "write"]
      BY <1>2 DEF Puts
    <2>2. /\ name' = name /\ name[c] \in Stamps /\ pc'[c] = "write" /\ written'[c] = k
          /\ \A w \in Writers : w # c => pc'[w] = pc[w] /\ written'[w] = written[w]
      BY <1>0, <2>1, <2>p DEF TypeOK
    <2>f. NextFile(Own(c), c, file, written, written')
      BY <2>1, <2>2 DEF NextFile
    <2>3. "write" \in Past /\ "write" \in Named /\ "write" \notin Unnamed
      BY DEF Past, Named, Unnamed
    <2>4. examples \in [Stamps -> File] /\ results \in [Stamps -> File]
      BY DEF TypeOK
    <2>5. FilesOf(examples, Recorders, name, pc, written)' /\ FilesOf(results, Trainers, name, pc, written)'
      <3>1. CASE c \in Trainers
        <4>1. /\ results' = [results EXCEPT ![name[c]] = file] /\ examples' = examples
              /\ Own(c) = results[name[c]]
          BY <1>2, <3>1 DEF Puts, Put, Own
        <4>w. OneWrites(Trainers, c, pc, written, pc', written')
          BY <1>0, <2>2, <2>3, <3>1 DEF OneWrites
        <4>f. FilesOf(results, Trainers, name, pc, written) /\ Trainers \in SUBSET Writers
          BY <1>0 DEF NamesInv
        <4>o. NextFile(results[name[c]], c, file, written, written')
          BY <2>f, <4>1
        <4>2. FilesOf([results EXCEPT ![name[c]] = file], Trainers, name, pc', written')
          BY ZenonT(30), <2>2, <2>4, <4>f, <4>o, <4>w, FilesWritten
        <4>3. FilesOf(examples, Recorders, name, pc', written')
          BY <1>0, <2>2, <3>1, FilesLeft DEF NamesInv
        <4> QED
          BY <2>2, <4>1, <4>2, <4>3
      <3>2. CASE c \notin Trainers
        <4>1. /\ examples' = [examples EXCEPT ![name[c]] = file] /\ results' = results
              /\ Own(c) = examples[name[c]] /\ c \in Recorders
          BY <1>0, <1>2, <3>2 DEF Puts, Put, Own
        <4>w. OneWrites(Recorders, c, pc, written, pc', written')
          BY <1>0, <2>2, <2>3, <4>1 DEF OneWrites
        <4>f. FilesOf(examples, Recorders, name, pc, written) /\ Recorders \in SUBSET Writers
          BY <1>0 DEF NamesInv
        <4>o. NextFile(examples[name[c]], c, file, written, written')
          BY <2>f, <4>1
        <4>2. FilesOf([examples EXCEPT ![name[c]] = file], Recorders, name, pc', written')
          BY ZenonT(30), <2>2, <2>4, <4>f, <4>o, <4>w, FilesWritten
        <4>3. FilesOf(results, Trainers, name, pc', written')
          BY <1>0, <2>2, <3>2, FilesLeft DEF NamesInv
        <4> QED
          BY <2>2, <4>1, <4>2, <4>3
      <3> QED
        BY <3>1, <3>2
    <2>6. ASSUME NEW w \in Writers, pc'[w] = "write"
          PROVE  written'[w] <= Parts[w] /\ Own(w)'.writers # {}
      <3>1. name[w] \in Stamps /\ file.writers # {} /\ (w # c => pc[w] = "write")
        BY <1>0, <1>2, <2>2, <2>3, <2>6 DEF PlacesInv, Puts
      <3>2. \A n \in Stamps : /\ examples'[n] = examples[n] \/ examples'[n] = file
                              /\ results'[n] = results[n] \/ results'[n] = file
        BY <1>2, <2>4 DEF Puts, Put
      <3>3. CASE w = c
        <4>1. Own(c)' = file
          BY <1>2, <2>2, <2>4 DEF Puts, Put, Own
        <4> QED
          BY <2>1, <2>2, <3>1, <3>3, <4>1
      <3>4. CASE w # c
        <4>1. Own(w)' = Own(w) \/ Own(w)' = file
          <5>1. PICK n \in Stamps : name[w] = n /\ name'[w] = n
            BY <2>2, <3>1
          <5>2. /\ results'[n] = results[n] \/ results'[n] = file
                /\ examples'[n] = examples[n] \/ examples'[n] = file
            BY <3>2
          <5>3. CASE w \in Trainers
            BY <5>1, <5>2, <5>3 DEF Own
          <5>4. CASE w \notin Trainers
            BY <5>1, <5>2, <5>4 DEF Own
          <5> QED
            BY <5>3, <5>4
        <4>2. Own(w).writers # {} /\ written[w] <= Parts[w]
          BY <3>1, <3>4 DEF NamesInv
        <4> QED
          BY <2>2, <3>1, <3>4, <4>1, <4>2
      <3> QED
        BY <3>3, <3>4
    <2>7. \A w \in Writers : /\ pc'[w] \in Unnamed => name'[w] = NoStamp
                             /\ pc'[w] \notin Past => written'[w] = 0
      BY <2>2, <2>3 DEF NamesInv
    <2>q. \A w \in Writers :
             /\ pc'[w] \in Unnamed => name'[w] = NoStamp
             /\ pc'[w] \notin Past => written'[w] = 0
             /\ pc'[w] = "write" => written'[w] <= Parts[w] /\ Own(w)'.writers # {}
      BY <2>6, <2>7
    <2> QED
      BY <2>5, <2>q DEF NamesInv, Past, Ended, Unnamed
  <1> QED
    BY <1>1, <1>2, MoveOrPut

\* No file is ever removed.
LEMMA FilesStay ==
  ASSUME TypeOK, PlacesInv, NamesInv, [Next]_vars, NEW n \in Stamps
  PROVE  /\ Exists(examples[n]) => Exists(examples'[n])
         /\ Exists(results[n]) => Exists(results'[n])
  <1>1. CASE Moves
    BY <1>1 DEF Moves
  <1>2. ASSUME NEW c \in Writers, NEW file \in File, Puts(c, file)
        PROVE  /\ Exists(examples[n]) => Exists(examples'[n])
               /\ Exists(results[n]) => Exists(results'[n])
    <2>1. c \in file.writers /\ NoFile.writers = {}
      BY <1>2 DEF Puts, NoFile
    <2>2. Exists(file)
      BY <2>1 DEF Exists
    <2>3. /\ examples'[n] = examples[n] \/ examples'[n] = file
          /\ results'[n] = results[n] \/ results'[n] = file
      BY <1>2 DEF Puts, Put, TypeOK
    <2> QED
      BY <2>2, <2>3
  <1> QED
    BY <1>1, <1>2, MoveOrPut

\* A name that two have stays theirs.
LEMMA SharedStays ==
  ASSUME TypeOK, PlacesInv, NamesInv, [Next]_vars, NEW n \in Stamps,
         NEW writers \in SUBSET Writers, Shared(writers, n)
  PROVE  Shared(writers, n)'
  <1>1. \A w \in Writers : name[w] = n => name'[w] = name[w]
    <2>1. \A w \in Writers : name[w] = n => pc[w] # "listed"
      BY ProjectAssumption DEF NamesInv, Unnamed
    <2> QED
      BY <2>1, MoveOrPut DEF Moves, Puts
  <1>2. PICK c \in writers, d \in writers : c # d /\ name[c] = n /\ name[d] = n
    BY DEF Shared
  <1>3. name'[c] = n /\ name'[d] = n
    BY <1>1, <1>2
  <1> QED
    BY <1>2, <1>3 DEF Shared

\* A command that puts something into a whole file has not written that file.
LEMMA NotItsOwn ==
  ASSUME TypeOK, PlacesInv, NEW c \in Writers, NEW file \in File, Puts(c, file),
         NEW dir, NEW writers \in SUBSET Writers, FilesOf(dir, writers, name, pc, written),
         c \in writers, Whole(dir[name[c]])
  PROVE  Shared(writers, name[c])
  <1>1. PICK w \in Writers : dir[name[c]] = [writers |-> {w}, parts |-> Parts[w]]
    BY DEF Whole, WholeBy
  <1>2. name[c] \in Stamps /\ dir[name[c]].writers = {w} /\ dir[name[c]].parts = Parts[w]
    BY <1>1 DEF Puts
  <1>3. w \in writers /\ name[w] = name[c] /\ pc[w] \in Past /\ Parts[w] = written[w]
    BY <1>2 DEF FilesOf
  <1>4. w # c
    <2> SUFFICES ASSUME w = c PROVE FALSE
      OBVIOUS
    <2>1. pc[c] = "write"
      BY <1>3 DEF Puts, Past, Ended
    <2>2. written[c] + 1 <= Parts[c]
      BY <2>1 DEF Puts
    <2>3. Parts[c] \in Nat
      BY ProjectAssumption
    <2> QED
      BY <1>3, <2>2, <2>3
  <1> QED
    BY <1>3, <1>4 DEF Shared

\* A step that changes a whole file is another's of the same name, and for
\* results one that was over before they were whole.
LEMMA Kept ==
  ASSUME TypeOK, PlacesInv, NamesInv, PastInv, [Next]_vars, NEW n \in Stamps
  PROVE  ExampleKept(n) /\ ResultsKept(n)
  <1>1. CASE Moves
    BY <1>1 DEF Moves, ExampleKept, ResultsKept
  <1>2. ASSUME NEW c \in Writers, NEW file \in File, Puts(c, file)
        PROVE  ExampleKept(n) /\ ResultsKept(n)
    <2>1. Recorders \subseteq Writers /\ Trainers \subseteq Writers /\ c \in Commands
      BY DEF Writers, Commands
    <2>2. CASE c \in Trainers
      <3>1. examples' = examples /\ (n # name[c] => results'[n] = results[n])
        BY <1>2, <2>2 DEF Puts, Put, TypeOK
      <3>2. ASSUME n = name[c], Whole(results[n]) PROVE ResultsKept(n)
        <4>1. Shared(Trainers, n)
          BY <1>2, <2>1, <2>2, <3>2, NotItsOwn DEF NamesInv
        <4>2. pc[c] \in {"tested", "write"} /\ n \notin past[c]
          BY <1>2, <2>2, <3>2 DEF Puts, PastInv
        <4>3. pc'[c] # pc[c] \/ written'[c] # written[c]
          BY <1>2, <2>1, <4>2 DEF Puts, TypeOK
        <4> QED
          BY <2>2, <3>2, <4>1, <4>2, <4>3 DEF ResultsKept
      <3> QED
        BY <3>1, <3>2 DEF ExampleKept, ResultsKept
    <2>3. CASE c \notin Trainers
      <3>1. /\ results' = results /\ (n # name[c] => examples'[n] = examples[n])
            /\ c \in Recorders
        BY <1>2, <2>3 DEF Puts, Put, TypeOK, Writers
      <3>2. ASSUME n = name[c], Whole(examples[n]) PROVE Shared(Recorders, n)
        BY <1>2, <2>1, <3>1, <3>2, NotItsOwn DEF NamesInv
      <3> QED
        BY <3>1, <3>2 DEF ExampleKept, ResultsKept
    <2> QED
      BY <2>2, <2>3
  <1> QED
    BY <1>1, <1>2, MoveOrPut

-----------------------------------------------------------------------------
(* Directories, readings, performances.                                    *)

\* A whole file is a file.
LEMMA WholeExists == ASSUME NEW file, Whole(file) PROVE Exists(file)
  <1>1. PICK w \in Writers : file = [writers |-> {w}, parts |-> Parts[w]]
    BY DEF Whole, WholeBy
  <1>2. file.writers # {} /\ NoFile.writers = {}
    BY <1>1 DEF NoFile
  <1> QED
    BY <1>2 DEF Exists

\* Every step leaves the directories, and makes the one it looked for.
LEMMA NextDirs ==
  ASSUME TypeOK, PlacesInv, NamesInv, DirsInv, FreshDirectoryRace, [Next]_vars
  PROVE  DirsInv' /\ FreshDirectoryRace'
  <1> USE DEF AfterDirs, locals, Goto, Move, Ended
  <1>0. CASE UNCHANGED vars
    BY <1>0 DEF vars, DirsInv, FreshDirectoryRace
  <1>1. ASSUME NEW c \in Commands, Start(c) PROVE DirsInv' /\ FreshDirectoryRace'
    <2>1. WholeIn(Read(c)) # {} => {"results", "examples"} \subseteq subdirs
      <3>1. ASSUME NEW n \in WholeIn(Read(c)) PROVE Exists(examples[n]) \/ Exists(results[n])
        BY WholeExists DEF WholeIn, Read
      <3> QED
        BY <3>1 DEF DirsInv, WholeIn
    <2>2. /\ UNCHANGED <<subdirs, examples, results>> /\ began'[c] = WholeIn(Read(c))
          /\ \A d \in Commands : d # c => pc'[d] = pc[d] /\ began'[d] = began[d]
          /\ pc'[c] = IF "results" \in subdirs THEN "haveResults" ELSE "makeResults"
      BY <1>1 DEF Start, TypeOK
    <2>3. pc'[c] = "makeResults" => began'[c] = {}
      BY <2>1, <2>2
    <2> QED
      BY <2>1, <2>2, <2>3 DEF DirsInv, FreshDirectoryRace
  <1>2. ASSUME NEW c \in Commands, MakeResults(c) \/ MakeExamples(c)
        PROVE  DirsInv' /\ FreshDirectoryRace'
    <2>1. PICK dir \in {"results", "examples"} :
            /\ subdirs' = subdirs \cup {dir} /\ UNCHANGED <<examples, results, began>>
            /\ pc'[c] = IF dir \in subdirs THEN "raced"
                        ELSE IF dir = "results" THEN "haveResults" ELSE "haveExamples"
            /\ pc[c] = IF dir = "results" THEN "makeResults" ELSE "makeExamples"
            /\ \A d \in Commands : d # c => pc'[d] = pc[d]
      BY <1>2 DEF MakeResults, MakeExamples, Make, TypeOK
    <2>2. DirsInv'
      BY <2>1 DEF DirsInv
    <2>3. FreshDirectoryRace'
      BY <2>1 DEF FreshDirectoryRace
    <2> QED
      BY <2>2, <2>3
  <1>3. ASSUME NEW c \in Commands, TestExamples(c) PROVE DirsInv' /\ FreshDirectoryRace'
    BY <1>3 DEF TestExamples, TypeOK, DirsInv, FreshDirectoryRace
  <1>4. ASSUME NEW c \in Commands, NEW file \in File, Puts(c, file)
        PROVE  DirsInv' /\ FreshDirectoryRace'
    <2>1. /\ pc[c] \in AfterDirs /\ pc' = [pc EXCEPT ![c] = "write"] /\ UNCHANGED <<subdirs, began>>
      BY <1>4 DEF Puts
    <2> QED
      BY <2>1 DEF TypeOK, DirsInv, FreshDirectoryRace
  <1>5. ASSUME NEW c \in Commands, pc[c] \in AfterDirs,
               UNCHANGED <<subdirs, examples, results, began>>,
               UNCHANGED pc \/ \E p \in AfterDirs \cup (Ended \ {"raced"}) : Goto(c, p)
        PROVE  DirsInv' /\ FreshDirectoryRace'
    BY <1>5 DEF TypeOK, DirsInv, FreshDirectoryRace
  <1>6. ASSUME NEW c \in Commands, Kill(c) PROVE DirsInv' /\ FreshDirectoryRace'
    BY <1>6 DEF Kill, TypeOK, DirsInv, FreshDirectoryRace
  <1>7. ASSUME NEW c \in Commands, Record(c) \/ Train(c) \/ Perform(c) \/ Pick(c) \/ List(c)
        PROVE  DirsInv' /\ FreshDirectoryRace'
    BY <1>5, <1>7 DEF Record, Train, TakeTimestamp, Perform, Pick, List
  <1>8. ASSUME NEW c \in Commands, ReadExample(c) \/ ReadResults(c) \/ Load(c)
        PROVE  DirsInv' /\ FreshDirectoryRace'
    BY <1>5, <1>8 DEF ReadExample, ReadResults, Load, Accept
  <1>9. ASSUME NEW c \in Commands,
               StartTraining(c) \/ Done(c) \/ TestName(c) \/ Fail(c) \/ Close(c)
        PROVE  DirsInv' /\ FreshDirectoryRace'
    BY <1>5, <1>9 DEF StartTraining, Done, TestName, Fail, Close
  <1> QED
    BY <1>0, <1>1, <1>2, <1>3, <1>4, <1>6, <1>7, <1>8, <1>9, OpenOrWrite DEF Next, Command

\* What was whole when a command began stays, and whole, unless two write it.
LEMMA WholeKept ==
  ASSUME TypeOK, PlacesInv, NamesInv, PastInv, [Next]_vars, NEW c \in Commands, NEW n \in Stamps
  PROVE  /\ Exists(Read(c)[n]) => Exists(Read(c)[n])'
         /\ Shared(WritersFor(c), n) => Shared(WritersFor(c), n)'
         /\ Whole(Read(c)[n]) => Whole(Read(c)[n])' \/ Shared(WritersFor(c), n)'
  <1>1. WritersFor(c) \subseteq Writers
    BY DEF WritersFor, Writers
  <1>2. Shared(WritersFor(c), n) => Shared(WritersFor(c), n)'
    <2>1. Shared(WritersFor(c), n) => Shared(Trainers, n)' \/ Shared(Recorders, n)'
      BY SharedStays DEF WritersFor, Writers
    <2> QED
      BY <1>1, SharedStays DEF WritersFor, Writers
  <1>3. Whole(Read(c)[n]) => Read(c)'[n] = Read(c)[n] \/ Shared(WritersFor(c), n)
    BY Kept DEF Read, WritersFor, ExampleKept, ResultsKept
  <1> QED
    BY <1>2, <1>3, FilesStay DEF Read, Whole, WholeBy

\* A file that is accepted is what is there.
LEMMA Accepted ==
  ASSUME TypeOK, NEW c \in Commands, NEW n \in Stamps, Accept(c, n)
  PROVE  /\ DOMAIN taken'[c] = DOMAIN taken[c] \cup {n}
         /\ taken'[c][n] = Read(c)[n]
         /\ \A m \in DOMAIN taken[c] : m # n => taken'[c][m] = taken[c][m]
         /\ \A d \in Commands : d # c => taken'[d] = taken[d]
         /\ UNCHANGED <<subdirs, examples, results, name, listed, written, began, past, faulty>>
  <1> DEFINE new == [m \in DOMAIN taken[c] \cup {n} |->
                       IF m = n THEN Read(c)[n] ELSE taken[c][m]]
  <1>1. DOMAIN taken = Commands
    BY DEF TypeOK
  <1>2. taken'[c] = new /\ \A d \in Commands : d # c => taken'[d] = taken[d]
    BY <1>1 DEF Accept
  <1> QED
    BY <1>2 DEF Accept

\* What a command knows, no other command touches.
LEMMA Others ==
  ASSUME TypeOK, NEW c \in Commands, Command(c), NEW d \in Commands, d # c
  PROVE  /\ pc'[d] = pc[d] /\ name'[d] = name[d] /\ listed'[d] = listed[d]
         /\ taken'[d] = taken[d] /\ began'[d] = began[d] /\ past'[d] = past[d]
  <1> USE DEF Goto, Move, locals
  <1>1. DOMAIN taken = Commands
    BY DEF TypeOK
  <1>2. ASSUME NEW n, Accept(c, n)
        PROVE  taken'[d] = taken[d] /\ UNCHANGED <<name, listed, began, past>>
    BY <1>1, <1>2 DEF Accept
  <1>3. CASE Start(c) \/ MakeResults(c) \/ MakeExamples(c) \/ TestExamples(c) \/ List(c)
    BY <1>3 DEF Start, MakeResults, MakeExamples, Make, TestExamples, List, TypeOK
  <1>4. CASE Record(c) \/ Train(c) \/ Perform(c) \/ Pick(c)
    BY <1>4 DEF Record, Train, TakeTimestamp, Perform, Pick, TypeOK
  <1>5. CASE ReadExample(c) \/ ReadResults(c) \/ Load(c)
    BY <1>2, <1>5 DEF ReadExample, ReadResults, Load, TypeOK
  <1>6. CASE StartTraining(c) \/ Done(c) \/ TestName(c)
    BY <1>6 DEF StartTraining, Done, TestName, TypeOK
  <1>7. CASE Open(c) \/ Write(c) \/ Fail(c) \/ Close(c) \/ Kill(c)
    BY <1>7 DEF Open, Write, Fail, Close, Kill, TypeOK
  <1> QED
    BY <1>3, <1>4, <1>5, <1>6, <1>7 DEF Command

\* ReadInv, of one command.
Reads(c) ==
  /\ pc[c] \in AfterDirs \ {"haveExamples"} => began[c] \subseteq listed[c]
  /\ pc[c] = "start" => DOMAIN taken[c] = {}
  /\ \A n \in DOMAIN taken[c] :
       n \in began[c] => Whole(taken[c][n]) \/ Shared(WritersFor(c), n)
  /\ c \in Trainers /\ pc[c] \in {"busy", "done", "tested", "write"}
       => listed[c] \subseteq DOMAIN taken[c]

\* A command's step keeps what it has taken among what it has read.
LEMMA ReadsNext ==
  ASSUME TypeOK, PlacesInv, NamesInv, PastInv, ReadInv, NEW c \in Commands, Command(c)
  PROVE  Reads(c)'
  <1> USE DEF Goto, Move, locals, AfterDirs, Ended
  <1>0. /\ Reads(c) /\ DOMAIN taken = Commands /\ began[c] \subseteq Stamps
        /\ \A n \in began[c] : Exists(Read(c)[n]) /\ (Whole(Read(c)[n]) \/ Shared(WritersFor(c), n))
        /\ \A n \in Stamps : Shared(WritersFor(c), n) => Shared(WritersFor(c), n)'
    BY WholeKept DEF ReadInv, Reads, TypeOK, Next
  <1>1. CASE Start(c)
    <2>1. pc[c] = "start" /\ pc'[c] \in {"haveResults", "makeResults"} /\ taken' = taken
      BY <1>1 DEF Start, TypeOK
    <2> QED
      BY <1>0, <2>1 DEF Reads
  <1>2. CASE MakeResults(c) \/ MakeExamples(c) \/ TestExamples(c)
    BY <1>0, <1>2 DEF MakeResults, MakeExamples, Make, TestExamples, TypeOK, Reads
  <1>3. CASE List(c)
    <2>1. began[c] \subseteq Files(Read(c))
      BY <1>0 DEF Files
    <2>2. /\ pc'[c] = "listed" /\ listed'[c] = Files(Read(c))
          /\ UNCHANGED <<taken, began>>
      BY <1>3 DEF List, TypeOK
    <2> QED
      BY <1>0, <2>1, <2>2 DEF Reads
  <1>4. CASE Record(c) \/ Train(c) \/ Perform(c) \/ Pick(c)
    <2>1. /\ pc'[c] \in {"read", "busy", "picked", "failure"} /\ pc[c] \in {"listed", "read"}
          /\ (pc'[c] = "busy" => c \in Recorders) /\ UNCHANGED <<listed, taken, began>>
      BY <1>4 DEF Record, Train, Perform, Pick, TypeOK
    <2> QED
      BY <1>0, <2>1, ProjectAssumption DEF Reads
  <1>5. ASSUME NEW n \in Stamps, Accept(c, n), pc[c] \in {"read", "picked"},
               pc'[c] = pc[c] \/ (pc'[c] = "busy" /\ c \notin Trainers)
        PROVE  Reads(c)'
    <2>1. n \in began[c] => Whole(Read(c)[n]) \/ Shared(WritersFor(c), n)
      BY <1>0
    <2> QED
      BY <1>0, <1>5, <2>1, Accepted DEF Reads
  <1>6. ASSUME UNCHANGED <<listed, taken, began>>, pc'[c] \in Ended
        PROVE  Reads(c)'
    BY <1>0, <1>6 DEF Reads
  <1>7. CASE ReadExample(c) \/ ReadResults(c)
    <2>1. listed[c] \subseteq Stamps
      BY DEF TypeOK
    <2>2. \A p : Goto(c, p) => pc'[c] = p
      BY DEF TypeOK
    <2>3. CASE ReadExample(c)
      BY <1>5, <1>6, <2>1, <2>2, <2>3 DEF ReadExample
    <2>4. CASE ReadResults(c)
      BY <1>5, <1>6, <2>1, <2>2, <2>4 DEF ReadResults
    <2> QED
      BY <1>7, <2>3, <2>4
  <1>8. CASE Load(c)
    <2>1. name[c] \in Stamps /\ c \notin Trainers
      BY <1>8, ProjectAssumption DEF Load, PlacesInv, Writers
    <2> QED
      BY <1>5, <1>6, <1>8, <2>1 DEF Load, TypeOK
  <1>9. CASE StartTraining(c)
    BY <1>0, <1>9 DEF StartTraining, TypeOK, Reads
  <1>10. CASE Done(c) \/ TestName(c) \/ Open(c) \/ Write(c)
    BY <1>0, <1>10 DEF Done, TestName, Open, Write, TypeOK, Reads
  <1>11. CASE Fail(c) \/ Close(c) \/ Kill(c)
    BY <1>6, <1>11 DEF Fail, Close, Kill, TypeOK
  <1> QED
    BY <1>1, <1>2, <1>3, <1>4, <1>7, <1>8, <1>9, <1>10, <1>11 DEF Command

\* Every step keeps what the commands have read true of the files.
LEMMA NextRead ==
  ASSUME TypeOK, PlacesInv, NamesInv, PastInv, ReadInv, [Next]_vars
  PROVE  ReadInv'
  <1>0. CASE UNCHANGED vars
    BY <1>0 DEF vars, locals, ReadInv, Read, Shared
  <1>1. ASSUME NEW c \in Commands, Command(c), NEW d \in Commands
        PROVE  Reads(d)'
    <2>1. CASE d = c
      BY <1>1, <2>1, ReadsNext
    <2>2. CASE d # c
      <3>1. Reads(d)
        BY DEF ReadInv, Reads
      <3>2. \A n \in Stamps : Shared(WritersFor(d), n) => Shared(WritersFor(d), n)'
        BY <1>1, WholeKept DEF Next
      <3>3. DOMAIN taken[d] \subseteq Stamps
        BY DEF TypeOK
      <3> QED
        BY <1>1, <2>2, <3>1, <3>2, <3>3, Others DEF Reads
    <2> QED
      BY <2>1, <2>2
  <1>2. ASSUME NEW c \in Commands, Command(c), NEW d \in Commands, NEW n \in began'[d]
        PROVE  Exists(Read(d)[n])' /\ (Whole(Read(d)[n])' \/ Shared(WritersFor(d), n)')
    <2>1. \A m \in Stamps :
            /\ Exists(Read(d)[m]) => Exists(Read(d)[m])'
            /\ Shared(WritersFor(d), m) => Shared(WritersFor(d), m)'
            /\ Whole(Read(d)[m]) => Whole(Read(d)[m])' \/ Shared(WritersFor(d), m)'
      BY WholeKept, <1>2 DEF Next
    <2>2. CASE began'[d] = began[d]
      BY <1>2, <2>1, <2>2 DEF ReadInv, TypeOK
    <2>3. CASE began'[d] # began[d]
      <3>1. d = c /\ began' # began
        BY <1>2, <2>3, Others
      <3>2. Start(c)
        BY <1>2, <3>1
        DEF Command, MakeResults, MakeExamples, Make, TestExamples, List, Record, Train, Perform,
            ReadExample, ReadResults, Accept, Pick, Load, StartTraining, Done, TestName, Open,
            Write, Fail, Close, Kill, locals
      <3>3. began'[d] = WholeIn(Read(d))
        BY <3>1, <3>2 DEF Start, TypeOK
      <3>4. n \in Stamps /\ Whole(Read(d)[n])
        BY <1>2, <3>3 DEF WholeIn
      <3> QED
        BY <2>1, <3>4, WholeExists
    <2> QED
      BY <2>2, <2>3
  <1>3. ASSUME NEW c \in Commands, Command(c) PROVE ReadInv'
    <2>1. \A d \in Commands : Reads(d)'
      BY <1>1, <1>3
    <2>2. \A d \in Commands : \A n \in began'[d] :
            Exists(Read(d)[n])' /\ (Whole(Read(d)[n])' \/ Shared(WritersFor(d), n)')
      BY <1>2, <1>3
    <2> QED
      BY <2>1, <2>2 DEF ReadInv, Reads
  <1> QED
    BY <1>0, <1>3 DEF Next

\* A training that goes on is one whose name was not taken when it was over.
LEMMA NextPast ==
  ASSUME TypeOK, PlacesInv, NamesInv, PastInv, [Next]_vars
  PROVE  PastInv'
  <1> USE DEF Goto, Move, locals, Ended
  <1>0. CASE UNCHANGED vars
    BY <1>0 DEF vars, PastInv
  <1>1. ASSUME NEW d \in Trainers, past'[d] = past[d]
        PROVE  \A n \in past'[d] : Exists(results'[n])
    <2>1. past[d] \subseteq Stamps
      BY DEF TypeOK, Commands, Writers
    <2> QED
      BY <1>1, <2>1, FilesStay DEF PastInv
  <1>2. ASSUME NEW c \in Commands, Command(c), NEW d \in Trainers
        PROVE  /\ \A n \in past'[d] : Exists(results'[n])
               /\ pc'[d] \in {"tested", "write"} => name'[d] \notin past'[d]
    <2>0. d \in Commands /\ c \in Commands
      BY DEF Commands, Writers
    <2>1. CASE d # c
      BY <1>1, <1>2, <2>0, <2>1, Others DEF PastInv
    <2>2. CASE d = c /\ Done(c)
      <3>1. /\ past'[d] = WholeIn(results) /\ pc'[d] \in {"done", "success"} /\ results' = results
        BY <2>0, <2>2 DEF Done, TypeOK
      <3> QED
        BY <3>1, WholeExists DEF WholeIn
    <2>3. CASE d = c /\ TestName(c)
      <3>1. /\ past' = past /\ name' = name
            /\ pc'[d] = IF Exists(results[name[d]]) THEN "failure" ELSE "tested"
        BY <2>0, <2>3 DEF TestName, TypeOK
      <3> QED
        BY <1>1, <3>1 DEF PastInv
    <2>4. ASSUME d = c, past' = past, pc'[d] \in {"tested", "write"} =>
                                       pc[d] \in {"tested", "write"} /\ name' = name
          PROVE  /\ \A n \in past'[d] : Exists(results'[n])
                 /\ pc'[d] \in {"tested", "write"} => name'[d] \notin past'[d]
      BY <1>1, <2>4 DEF PastInv
    <2>5. CASE d = c /\ (Open(c) \/ Write(c))
      BY <2>0, <2>4, <2>5, ProjectAssumption DEF Open, Write, TypeOK
    <2>6. CASE d = c /\ (\/ Start(c) \/ MakeResults(c) \/ MakeExamples(c) \/ TestExamples(c)
                         \/ List(c) \/ StartTraining(c) \/ Close(c) \/ Kill(c) \/ Fail(c))
      BY <2>0, <2>4, <2>6 DEF Start, MakeResults, MakeExamples, Make, TestExamples, List,
                              StartTraining, Close, Kill, Fail, TypeOK
    <2>7. CASE d = c /\ (Record(c) \/ Train(c) \/ Perform(c) \/ Pick(c))
      BY <2>0, <2>4, <2>7 DEF Record, Train, Perform, Pick, TypeOK
    <2>8. CASE d = c /\ (ReadExample(c) \/ ReadResults(c) \/ Load(c))
      <3>1. past' = past
        BY <2>8 DEF ReadExample, ReadResults, Load, Accept
      <3>2. pc'[d] \notin {"tested", "write"}
        BY <2>0, <2>8 DEF ReadExample, ReadResults, Load, TypeOK
      <3> QED
        BY <2>4, <2>8, <3>1, <3>2
    <2> QED
      BY <1>2, <2>1, <2>2, <2>3, <2>5, <2>6, <2>7, <2>8 DEF Command
  <1> QED
    BY <1>0, <1>2 DEF Next, PastInv

\* PerformInv, of one performance.
Performs(c) ==
  /\ \A n \in DOMAIN taken[c] : \/ Shared(Trainers, n)
                                \/ Whole(taken[c][n]) /\ taken[c][n] = results[n]
  /\ pc[c] = "busy" => name[c] \in DOMAIN taken[c]

\* What passes for results is whole or has been written by two.
LEMMA ParsesWhole ==
  ASSUME NamesInv, NEW n \in Stamps, MayParse(results[n]), ~Whole(results[n])
  PROVE  Shared(Trainers, n)
  <1> DEFINE writers == results[n].writers
  <1>1. Cardinality(writers) > 1
    BY DEF MayParse
  <1>2. \A w \in writers : w \in Trainers /\ name[w] = n
    BY DEF NamesInv, FilesOf
  <1>3. ASSUME \A v, w \in writers : v = w PROVE FALSE
    <2>1. writers = {} \/ \E w : writers = {w}
      BY <1>3
    <2>2. Cardinality(writers) = 0 \/ Cardinality(writers) = 1
      BY <2>1, FS_EmptySet, FS_Singleton
    <2> QED
      BY <1>1, <2>2
  <1> QED
    BY <1>2, <1>3 DEF Shared

\* Every step keeps a performer with nothing but whole results.
LEMMA NextPerform ==
  ASSUME TypeOK, PlacesInv, NamesInv, PastInv, PerformInv, [Next]_vars
  PROVE  PerformInv'
  <1> USE DEF Goto, Move, locals, Ended
  <1>0. CASE UNCHANGED vars
    BY <1>0 DEF vars, PerformInv, Shared
  <1>s. \A n \in Stamps : Shared(Trainers, n) => Shared(Trainers, n)'
    BY SharedStays DEF Writers
  <1>1. ASSUME NEW c \in Commands, Command(c), NEW d \in Performers, d # c
        PROVE  Performs(d)'
    <2>1. Performs(d) /\ d \in Commands /\ DOMAIN taken[d] \subseteq Stamps
      BY DEF PerformInv, Performs, Commands, TypeOK
    <2>2. \A n \in Stamps : Whole(results[n]) => results'[n] = results[n] \/ Shared(Trainers, n)
      BY Kept DEF ResultsKept
    <2> QED
      BY <1>1, <1>s, <2>1, <2>2, Others DEF Performs
  <1>2. ASSUME NEW c \in Performers, Command(c) PROVE Performs(c)'
    <2>1. /\ Performs(c) /\ c \in Commands /\ c \notin Writers /\ Read(c) = results
          /\ c \notin Recorders /\ c \notin Trainers
      BY ProjectAssumption DEF PerformInv, Performs, Commands, Read, Writers
    <2>2. pc[c] \notin {"done", "tested", "write"}
      BY <2>1 DEF PlacesInv
    <2>d. DOMAIN taken[c] \subseteq Stamps
      BY <2>1 DEF TypeOK
    <2>3. ASSUME UNCHANGED <<results, taken>>, pc'[c] # "busy" PROVE Performs(c)'
      BY <1>s, <2>1, <2>d, <2>3 DEF Performs
    <2>4. ASSUME NEW n \in Stamps, Accept(c, n), MayParse(results[n]),
                 pc'[c] # "busy" \/ name[c] = n
          PROVE  Performs(c)'
      BY <1>s, <2>1, <2>d, <2>4, Accepted, ParsesWhole DEF Performs
    <2>5. CASE Start(c) \/ MakeResults(c) \/ MakeExamples(c) \/ TestExamples(c) \/ List(c)
      BY <2>1, <2>3, <2>5 DEF Start, MakeResults, MakeExamples, Make, TestExamples, List, TypeOK
    <2>6. CASE Perform(c) \/ Pick(c)
      BY <2>1, <2>3, <2>6 DEF Perform, Pick, TypeOK
    <2>7. CASE ReadResults(c)
      <3>1. \A n \in listed[c] : n \in Stamps
        BY <2>1 DEF TypeOK
      <3> QED
        BY <2>1, <2>3, <2>4, <2>7, <3>1 DEF ReadResults, TypeOK
    <2>8. CASE Load(c)
      <3>1. name[c] \in Stamps
        BY <2>1, <2>8 DEF Load, PlacesInv
      <3> QED
        BY <2>1, <2>3, <2>4, <2>8, <3>1 DEF Load, TypeOK
    <2>9. CASE Done(c) \/ Kill(c)
      BY <2>1, <2>3, <2>9 DEF Done, Kill, TypeOK
    <2> QED
      BY <1>2, <2>1, <2>2, <2>5, <2>6, <2>7, <2>8, <2>9
      DEF Command, Record, Train, ReadExample, StartTraining, TestName, Open, Write, Fail, Close
  <1> QED
    BY <1>0, <1>1, <1>2 DEF Next, PerformInv, Performs, Commands

-----------------------------------------------------------------------------
(* The results.                                                            *)

\* The invariants hold of a new project.
LEMMA InitInv == Init => Inv
  <1> SUFFICES ASSUME Init PROVE Inv
    OBVIOUS
  <1>1. TypeOK /\ \A c \in Commands : DOMAIN taken[c] = {}
    BY InitType DEF Init
  <1>2. NamesInv
    <2>1. \A n \in Stamps : examples[n].writers = {} /\ results[n].writers = {}
      BY DEF Init, NoFile
    <2>2. FilesOf(examples, Recorders, name, pc, written) /\ FilesOf(results, Trainers, name, pc, written)
      BY <2>1 DEF FilesOf
    <2>3. \A c \in Writers : pc[c] = "start" /\ written[c] = 0 /\ name[c] = NoStamp
      BY DEF Init, Commands
    <2> QED
      BY <2>2, <2>3 DEF NamesInv, Named, Unnamed
  <1>3. DirsInv /\ PlacesInv /\ FreshDirectoryRace /\ PastInv
    <2>1. \A c \in Commands : pc[c] = "start" /\ past[c] = {} /\ began[c] = {}
      BY DEF Init
    <2>2. \A n \in Stamps : ~Exists(examples[n]) /\ ~Exists(results[n])
      BY DEF Init, Exists
    <2> QED
      BY <2>1, <2>2
      DEF DirsInv, PlacesInv, FreshDirectoryRace, AfterDirs, PastInv, Commands, Writers, Named
  <1>4. ReadInv /\ PerformInv
    BY <1>1 DEF Init, ReadInv, PerformInv, AfterDirs, Commands
  <1> QED
    BY <1>1, <1>2, <1>3, <1>4 DEF Inv

\* The parts of the invariant are inductive together.
LEMMA Invariance == Spec => []Inv
  <1>1. Inv /\ [Next]_vars => Inv'
    BY NextType, NextNames, NextPast, NextDirs, NextRead, NextPerform DEF Inv
  <1> QED
    BY InitInv, <1>1, PTL DEF Spec

\* The variables of the project always have their types.
THEOREM TypeCorrect == Spec => []TypeOK
  <1>1. Inv => TypeOK
    BY DEF Inv
  <1> QED
    BY Invariance, <1>1, PTL

\* A command that tries to make a directory another made meanwhile, and fails,
\* began in a project without whole examples or results.
THEOREM RaceOnlyWhenFresh == Spec => []FreshDirectoryRace
  <1>1. Inv => FreshDirectoryRace
    BY DEF Inv
  <1> QED
    BY Invariance, <1>1, PTL

\* However many commands work on it and are killed, whatever the clock says: what
\* is whole is changed by nobody but another that was given the same time, and
\* results that were whole when a training was over never by that training.
THEOREM PastIsKept == Spec => PastKept
  <1>1. Inv /\ [Next]_vars => [\A n \in Stamps : ExampleKept(n) /\ ResultsKept(n)]_vars
    BY Kept DEF Inv
  <1> QED
    BY Invariance, <1>1, PTL DEF Spec, PastKept

\* A training learns, and a menu of results offers, everything that was whole
\* when the command began and whose name no two writers have.
THEOREM SavedIsRead == Spec => []ReadsWhatWasSaved
  <1>1. Inv => ReadsWhatWasSaved
    BY DEF Inv, ReadInv, ReadsWhatWasSaved, AfterDirs, Commands, Writers
  <1> QED
    BY Invariance, <1>1, PTL

\* What is performed is whole and is still there as it was read, unless two
\* trainings have its name.
THEOREM WholeIsPerformed == Spec => []PerformsWholeResults
  <1>1. Inv => PerformsWholeResults
    BY DEF Inv, PerformInv, PerformsWholeResults
  <1> QED
    BY Invariance, <1>1, PTL
=============================================================================
