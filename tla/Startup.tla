------------------------------ MODULE Startup ------------------------------
(***************************************************************************)
(* How tools/rv32emu.c and tools/rv32win.c take their files: the pairwise  *)
(* refusal of aliases, the inputs read, the outputs created one after the  *)
(* other, and the state file written after the run.                        *)
(*                                                                         *)
(* A path is a name with its canonical spelling, the file it leads to (an  *)
(* inode, or NoFile), the file that creating it would make, and whether it *)
(* is a link.  Two canonical spellings can make one file: volumes that     *)
(* ignore case do so.                                                      *)
(***************************************************************************)
EXTENDS Naturals, Sequences

CONSTANTS
    NoPath, NoFile,
    Canon,      \* name -> canonical spelling
    Inode,      \* name -> the file a stat finds, or NoFile
    Target,     \* name -> the file that creating the name would make
    Links,      \* the names that are symbolic links
    Inside,     \* the names inside the frames directory
    CommandLines  \* the command lines: role -> name or NoPath

Names == DOMAIN Canon

Roles == {"image", "input", "disk", "record", "trace", "checkpoints", "state", "frames"}

\* What a name resolves to: a file that is not there yet is none of those that are.
ASSUME StartupAssumption ==
    /\ DOMAIN Inode = Names /\ DOMAIN Target = Names
    /\ \A c \in CommandLines : /\ \A r \in Roles \ {"frames"} : c[r] \in Names \cup {NoPath}
                               /\ c["image"] # NoPath
    /\ \A a, b \in Names : Inode[a] = NoFile => Target[a] # Inode[b]

VARIABLES
    front,      \* "rv32emu" or "rv32win"
    path,       \* role -> name or NoPath
    stage,      \* the next step of main
    made,       \* target files created by this run
    written     \* history: <<role, file>> of every open that truncates

startVars == <<front, path, stage, made, written>>

\* The file a name leads to now.
FileOf(n) == IF Inode[n] # NoFile THEN Inode[n] ELSE IF Target[n] \in made THEN Target[n] ELSE NoFile

\* Bug: only the spellings and the files are compared.
SameSpelling(a, b) ==
    /\ a # NoPath /\ b # NoPath
    /\ a = b \/ (Inode[a] = Inode[b] /\ Inode[a] # NoFile)

same_file(a, b) ==
    /\ a # NoPath /\ b # NoPath
    /\ \/ a = b
       \/ Canon[a] = Canon[b]
       \/ Inode[a] = Inode[b] /\ Inode[a] # NoFile

\* The two programs' lists.  rv32win counts the disk, which is written through, among
\* its outputs; rv32emu among its inputs.
Inputs == {"image", "input"} \cup IF front = "rv32emu" THEN {"disk"} ELSE {}

Outputs ==
    IF front = "rv32emu"
    THEN <<"record", "trace", "checkpoints", "state">>
    ELSE <<"record", "checkpoints", "disk">>

\* Every output against every input and every earlier output, and rv32emu's files
\* against its frames directory.
Aliased ==
    \/ \E i \in DOMAIN Outputs :
          \/ \E r \in Inputs : same_file(path[Outputs[i]], path[r])
          \/ \E j \in 1 .. i - 1 : same_file(path[Outputs[i]], path[Outputs[j]])
    \/ /\ front = "rv32emu" /\ path["frames"] # NoPath
       /\ \E r \in Roles \ {"frames"} : path[r] \in Inside

Refuse == stage' = "refused" /\ UNCHANGED <<front, path, made, written>>

\* emu_alloc and emu_load_image, then the comparisons.
CheckPaths ==
    /\ stage = "check"
    /\ \/ Inode[path["image"]] = NoFile /\ Refuse
       \/ Inode[path["image"]] # NoFile /\ Aliased /\ Refuse
       \/ /\ Inode[path["image"]] # NoFile /\ ~Aliased
          /\ stage' = "inputs"
          /\ UNCHANGED <<front, path, made, written>>

\* The script is parsed, the console input read, the disk opened (and the window).
ReadInputs ==
    /\ stage = "inputs"
    /\ \/ Refuse
       \/ /\ \A r \in {"input", "disk"} : path[r] # NoPath => Inode[path[r]] # NoFile
          /\ stage' = "record"
          /\ UNCHANGED <<front, path, made, written>>

\* O_NOFOLLOW: a link is not opened.
Opens(n) == n \notin Links

\* emu_open_output: truncates a file that is there, creates one that is not.
OpenOutput(r, next) ==
    IF Opens(path[r])
    THEN LET f == IF FileOf(path[r]) = NoFile THEN Target[path[r]] ELSE FileOf(path[r])
         IN  /\ written' = Append(written, <<r, f>>)
             /\ made' = IF FileOf(path[r]) = NoFile THEN made \cup {f} ELSE made
             /\ stage' = next
             /\ UNCHANGED <<front, path>>
    ELSE /\ stage' = "failed"
         /\ UNCHANGED <<front, path, made, written>>

\* The streams in the order they are opened; rv32win has no trace.
After == [record |-> "trace", trace |-> "checkpoints", checkpoints |-> "compare"]

OpenStream ==
    /\ stage \in DOMAIN After
    /\ IF path[stage] # NoPath
       THEN OpenOutput(stage, After[stage])
       ELSE stage' = After[stage] /\ UNCHANGED <<front, path, made, written>>

\* emu_require_distinct_streams: names that the volume makes one file of are seen here.
CompareStreams ==
    /\ stage = "compare"
    /\ stage' = IF \E i, j \in DOMAIN written : i # j /\ written[i][2] = written[j][2]
                THEN "failed" ELSE "run"
    /\ UNCHANGED <<front, path, made, written>>

\* After the halt: the state file, which only rv32emu writes.
WriteState ==
    /\ stage = "run"
    /\ IF front = "rv32emu" /\ path["state"] # NoPath
       THEN OpenOutput("state", "done")
       ELSE stage' = "done" /\ UNCHANGED <<front, path, made, written>>

Ended == stage \in {"refused", "failed", "done"} /\ UNCHANGED startVars

StartInit ==
    /\ front \in {"rv32emu", "rv32win"}
    /\ path \in CommandLines
    /\ front = "rv32win" => \A r \in {"trace", "state", "frames"} : path[r] = NoPath
    /\ stage = "check"
    /\ made = {}
    /\ written = <<>>

StartNext == CheckPaths \/ ReadInputs \/ OpenStream \/ CompareStreams \/ WriteState \/ Ended

-----------------------------------------------------------------------------
(* Properties *)

\* No open ever truncates a file the run reads, under any spelling, hard link or symbolic
\* link.  Two outputs meet in one file only if this run created it, under two canonical
\* spellings that the volume takes for one and that are no links; and then the run does
\* not start, unless one of them is the state file, which is opened after the run and
\* compared with no stream.  A run refused before its outputs are opened has truncated
\* nothing (rv32emu.c and rv32win.c main, same_file, emu_open_output,
\* emu_require_distinct_streams).
NothingOverwritten ==
    /\ \A i \in DOMAIN written, r \in {"image", "input", "disk"} :
          path[r] # NoPath => Inode[path[r]] # written[i][2]
    /\ \A i, j \in DOMAIN written : i # j /\ written[i][2] = written[j][2] =>
          LET a == written[i][1]  b == written[j][1]
          IN  /\ written[i][2] \in made
              /\ Canon[path[a]] # Canon[path[b]] /\ path[a] \notin Links /\ path[b] \notin Links
              /\ stage \in {"run", "done"} => "state" \in {a, b}
    /\ stage = "refused" => written = <<>>

=============================================================================
