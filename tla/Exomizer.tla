------------------------------ MODULE Exomizer ------------------------------
(***************************************************************************)
(* A call of prepack6502 as the file system sees it: the options, the      *)
(* input, the output files, and exomizer, which a child process runs for   *)
(* each of them.                                                           *)
(*                                                                         *)
(* The name of a file is a sequence of its parts, of which the last one    *)
(* may be ".prg".  The contents of a file are a sequence of tags that say  *)
(* how it came about.                                                      *)
(***************************************************************************)
EXTENDS Options

CONSTANT Disks   \* what the files hold before the call

VARIABLES
  disk,        \* contents of the files there are
  exo_pc,      \* where main is, behind the options
  queue,       \* the files exomizer is still to be called for
  status,      \* how the child ended, or what nobody has written
  child,       \* "none", "running" or "ended"
  program,     \* what was read from the input
  sizes,       \* of which contents the sizes were returned, in order
  forked       \* every fork succeeded

exoVars == <<disk, exo_pc, queue, status, child, program, sizes, forked>>
allVars == <<optVars, exoVars>>

Status == {"success", "failure", "killed"}

Stdin == <<"of stdin">>
Part(n) == <<"part", ToString(n)>>
Crunched(c) == <<"crunched">> \o c
Half == <<"half a file">>

\* A file is written.
Store(file, contents) ==
  [f \in DOMAIN disk \cup {file} |-> IF f = file THEN contents ELSE disk[f]]

ExoInit ==
  /\ OptInit
  /\ disk \in Disks
  /\ exo_pc = "start"
  /\ queue = <<>>
  /\ status = "success"
  /\ child = "none"
  /\ program = <<>>
  /\ sizes = <<>>
  /\ forked = TRUE

-----------------------------------------------------------------------------
ReadOptions ==
  /\ NextOption
  /\ UNCHANGED exoVars

Input == setting.filename_input

\* Open and read the input, then split it; each may end the program.
ReadInput ==
  /\ opt_pc = "accepted" /\ exo_pc = "start"
  /\ Input # NULL => Input \in DOMAIN disk
  /\ program' = IF Input = NULL THEN Stdin ELSE disk[Input]
  /\ exo_pc' \in {"layout", "exit 1"}
  /\ UNCHANGED <<optVars, disk, queue, status, child, sizes, forked>>

NoInput ==
  /\ opt_pc = "accepted" /\ exo_pc = "start"
  /\ Input # NULL /\ Input \notin DOMAIN disk
  /\ exo_pc' = "exit 1"
  /\ UNCHANGED <<optVars, disk, queue, status, child, program, sizes, forked>>

\* The files that are written, in order; none stands for stdout.
Outputs ==
  (IF setting.filename_output1 = NULL THEN <<>> ELSE <<setting.filename_output1>>) \o
  (IF setting.do_split THEN <<setting.filename_output2>> ELSE <<>>)

\* The number of the part that a file of Outputs takes.
PartOf(n) == IF setting.filename_output1 = NULL THEN 2 ELSE n

\* Opening a file for writing empties it; one that cannot be opened ends main.
OpenOutputs ==
  /\ exo_pc = "layout"
  /\ \E n \in 0 .. Len(Outputs) :
       LET opened == ToSet(SubSeq(Outputs, 1, n))
       IN  /\ disk' = [f \in DOMAIN disk \cup opened |-> IF f \in opened THEN <<>> ELSE disk[f]]
           /\ exo_pc' = IF n = Len(Outputs) THEN "write" ELSE "exit 1"
  /\ UNCHANGED <<optVars, queue, status, child, program, sizes, forked>>

\* The output ends in the middle of a file.
WriteFails ==
  /\ exo_pc = "write"
  /\ disk' = [f \in DOMAIN disk |-> IF f \in ToSet(Outputs) THEN Half ELSE disk[f]]
  /\ exo_pc' = "exit 1"
  /\ UNCHANGED <<optVars, queue, status, child, program, sizes, forked>>

\* The files exomizer is called for, in order.
ToCrunch ==
  (IF setting.do_exomize /\ setting.do_stats THEN <<Input>> ELSE <<>>) \o
  (IF setting.do_exomize THEN Outputs ELSE <<>>)

\* Two streams to one file leave a mixture of both.
WriteOutputs ==
  /\ exo_pc = "write"
  /\ disk' = [f \in DOMAIN disk |->
                IF f \in ToSet(Outputs)
                THEN FlattenSeq([n \in 1 .. Len(Outputs) |->
                                   IF Outputs[n] = f THEN Part(PartOf(n)) ELSE <<>>])
                ELSE disk[f]]
  /\ exo_pc' = "exomize"
  /\ queue' = ToCrunch
  /\ UNCHANGED <<optVars, status, child, program, sizes, forked>>

-----------------------------------------------------------------------------
(***************************************************************************)
(* exomize, for the file at the head of the queue.                         *)
(***************************************************************************)
\* Where the crunched file goes.
Dest(file) ==
  IF Len(file) > 1 /\ Last(file) = ".prg" THEN Front(file) \o <<".exo">>
                                          ELSE file \o <<".exo">>

filename == Head(queue)

dest_filename == Dest(filename)

Fork ==
  /\ exo_pc = "exomize" /\ queue # <<>>
  /\ child' = "running"
  /\ exo_pc' = "wait"
  /\ UNCHANGED <<optVars, disk, queue, status, program, sizes, forked>>

\* There is no child to wait for, and status holds anything.
ForkFails ==
  /\ exo_pc = "exomize" /\ queue # <<>>
  /\ forked' = FALSE
  /\ exo_pc' = "wait"
  /\ status' \in Status
  /\ UNCHANGED <<optVars, disk, queue, child, program, sizes>>

\* exomizer has crunched the file.
ChildCrunches ==
  /\ child = "running"
  /\ disk' = Store(dest_filename, Crunched(disk[filename]))
  /\ status' = "success"
  /\ child' = "ended"
  /\ UNCHANGED <<optVars, exo_pc, queue, program, sizes, forked>>

\* exomizer cannot be executed, or fails, or is killed, while it writes or not.
ChildFails ==
  /\ child = "running"
  /\ disk' \in {disk, Store(dest_filename, Half)}
  /\ status' \in {"failure", "killed"}
  /\ child' = "ended"
  /\ UNCHANGED <<optVars, exo_pc, queue, program, sizes, forked>>

\* Any way to exit will do.
WaitChild_AnyExit ==
  /\ exo_pc = "wait" /\ child # "running"
  /\ child' = "none"
  /\ exo_pc' = IF status # "killed" THEN "stat" ELSE "exit 1"
  /\ UNCHANGED <<optVars, disk, queue, status, program, sizes, forked>>

WaitChild ==
  /\ exo_pc = "wait" /\ child # "running"
  /\ child' = "none"
  /\ exo_pc' = IF status = "success" THEN "stat" ELSE "exit 1"
  /\ UNCHANGED <<optVars, disk, queue, status, program, sizes, forked>>

\* The size of what is found under the name is returned.
StatFile ==
  /\ exo_pc = "stat"
  /\ IF dest_filename \in DOMAIN disk
     THEN /\ sizes' = Append(sizes, disk[dest_filename])
          /\ queue' = Tail(queue)
          /\ exo_pc' = "exomize"
     ELSE exo_pc' = "exit 1" /\ UNCHANGED <<sizes, queue>>
  /\ UNCHANGED <<optVars, disk, status, child, program, forked>>

\* The ranges are checked last, with all files written and crunched.
CheckRanges ==
  /\ exo_pc = "exomize" /\ queue = <<>>
  /\ exo_pc' \in {"exit 0", "exit 1"}
  /\ UNCHANGED <<optVars, disk, queue, status, child, program, sizes, forked>>

ExoNext ==
  \/ ReadOptions
  \/ ReadInput
  \/ NoInput
  \/ OpenOutputs
  \/ WriteOutputs
  \/ WriteFails
  \/ Fork
  \/ ForkFails
  \/ ChildCrunches
  \/ ChildFails
  \/ WaitChild
  \/ StatFile
  \/ CheckRanges

ExoExited ==
  \/ opt_pc \in {"help", "refused", "unusable"}
  \/ exo_pc \in {"exit 0", "exit 1"}

ExoSpec ==
  /\ ExoInit
  /\ [][ExoNext \/ (ExoExited /\ UNCHANGED allVars)]_allVars

-----------------------------------------------------------------------------
(***************************************************************************)
(* Properties.                                                             *)
(***************************************************************************)
ExoTypeOK ==
  /\ OptTypeOK
  /\ exo_pc \in {"start", "layout", "write", "exomize", "wait", "stat", "exit 0", "exit 1"}
  /\ queue # <<>> => filename \in DOMAIN disk
  /\ status \in Status
  /\ child \in {"none", "running", "ended"}
  /\ child # "none" => exo_pc = "wait" /\ queue # <<>>
  /\ forked \in BOOLEAN

\* The files this call is about have names of their own, as have those that
\* exomizer writes.
Files == (IF setting.do_stats THEN <<Input>> ELSE <<>>) \o Outputs
NamesApart ==
  LET all == Files \o [n \in 1 .. Len(Files) |-> Dest(Files[n])]
  IN  \A m, n \in 1 .. Len(all) : m # n => all[m] # all[n]

\* README.md, lines 72 and 76: -e crunches the outputs, and -s the input too.
\* When main ends with success, and could fork, the outputs have been written
\* and there is a crunched file of each that is its own; with -s there is one of
\* the program that was packed, and the sizes compared are those of these files.
CrunchesItsFiles ==
  exo_pc = "exit 0" /\ forked /\ NamesApart =>
    LET contents == (IF setting.do_stats THEN <<program>> ELSE <<>>) \o
                    [n \in 1 .. Len(Outputs) |-> Part(PartOf(n))]
    IN  /\ \A n \in 1 .. Len(Files) : disk[Files[n]] = contents[n]
        /\ setting.do_exomize =>
             /\ \A n \in 1 .. Len(Files) : disk[Dest(Files[n])] = Crunched(contents[n])
             /\ sizes = [n \in 1 .. Len(Files) |-> Crunched(contents[n])]
=============================================================================
