--------------------------- MODULE ShellSession ---------------------------
(***************************************************************************)
(* A session of the shell on a script (shell.c: run_test, prompt,          *)
(* split_args, cmd_help, and the handlers of ShellCommands).               *)
(*                                                                         *)
(* For every line the prompt is printed, the line is split into the array  *)
(* argv and the handler is called.  The array is allocated once: a line    *)
(* overwrites as many of its slots as it has words and stores NULL after   *)
(* them, and the slots beyond still point into lines freed long ago.  The  *)
(* prompt shows the last component of the kernel's current directory,      *)
(* copied to cur_dir when cur_dir_changed is set.  What a handler opens    *)
(* and does not close stays open until the session ends, and the process   *)
(* may have MaxFiles files open beside its own.                            *)
(***************************************************************************)
EXTENDS ShellCommands, Sequences

CONSTANTS
  Commands,        \* the commands the script uses
  WordCounts,      \* the numbers of words its lines have
  Paths,           \* directories: sequences of names
  MaxCommandArgs,  \* MAX_COMMAND_ARGS: argv has one slot more
  MaxFiles         \* the files the host lets the handlers have open

Root == <<>>

ASSUME CommandsAssumption == Commands \subseteq DOMAIN Handlers

ASSUME WordCountsAssumption == WordCounts \subseteq 1..(MaxWords + 1)

ASSUME PathsAssumption == Root \in Paths

ASSUME MaxCommandArgsAssumption == MaxCommandArgs \in Nat \ 0..1

ASSUME MaxFilesAssumption == MaxFiles \in Nat

VARIABLES
  state,       \* "reading", "ended" or "crashed"
  argv,        \* argv[i]: "null", "own" (a word of this line) or "stale"
  booted,      \* umka->booted
  cwd,         \* the current directory of the kernel's current thread
  cur_dir,     \* the shell's copy of it
  last_dir,    \* where last_dir points: the i-th name of cur_dir, 0: its start
  changed,     \* cur_dir_changed
  behind,      \* history: cwd was changed by other means than cd
  shown,       \* the last prompt: where it started and the names from there
  files,       \* the number of files handlers left open
  refused,     \* history: the number of files that were rejected
  slot,        \* the status of the command slot
  last         \* the last line: its command and what came of it

host == <<files, refused, slot>>

vars == <<state, argv, booted, cwd, cur_dir, last_dir, changed, behind, shown,
          host, last>>

dirs == <<booted, cwd, cur_dir, last_dir, changed, behind, shown>>

Slots == 0..MaxCommandArgs

\* What came of a line: it was fine, ended the session, was answered with a
\* usage text or ran (on a stale word; leaving a file or memory behind), or used
\* a word or a file that is not there, freed memory, or slots argv has not.
Crashes == {"wild", "null", "dangling", "overflow"}

Runs == {"ran", "stale", "left"}

Results == {"fine", "eof", "quit", "usage"} \cup Runs \cup Crashes

\* A line that was skipped, refused or executed on its own words.
Fine == [cmd |-> "", words |-> 0, result |-> "fine"]

Text(path, ptr) == <<ptr, IF ptr > Len(path) THEN <<"stale">>
                          ELSE IF ptr = 0 THEN path
                          ELSE SubSeq(path, ptr, Len(path))>>

(* The types.                                                                *)
TypeOK ==
  /\ state \in {"reading", "ended", "crashed"}
  /\ argv \in [Slots -> {"null", "own", "stale"}]
  /\ booted \in BOOLEAN /\ changed \in BOOLEAN /\ behind \in BOOLEAN
  /\ cwd \in Paths /\ cur_dir \in Paths
  /\ last_dir \in {Len(p) : p \in Paths}
  /\ \E p \in Paths, q \in Paths : shown = Text(p, Len(q))
  /\ files \in 0..MaxFiles /\ refused \in Nat /\ slot \in {"EMPTY", "DONE"}
  /\ last.result \in Results

Init ==
  /\ state = "reading"
  /\ argv = [i \in Slots |-> "null"]
  /\ booted = FALSE
  /\ cwd = Root /\ cur_dir = Root /\ last_dir = 0 /\ changed = TRUE
  /\ behind = FALSE
  /\ shown = Text(Root, 0)
  /\ files = 0 /\ refused = 0 /\ slot = "EMPTY"
  /\ last = Fine

-----------------------------------------------------------------------------
\* get_last_dir: the last name, or the slash of the root.
LastDir(path) == Len(path)

\* prompt, printed after the line has been read.
PromptDir == IF changed /\ booted THEN cwd ELSE cur_dir

PromptPtr == IF changed THEN LastDir(PromptDir) ELSE last_dir

Prompt ==
  /\ last_dir' = PromptPtr
  /\ shown' = Text(PromptDir, PromptPtr)

\* Nothing but the prompt changes the directories.
OnlyPrompt ==
  /\ Prompt
  /\ cur_dir' = PromptDir /\ changed' = FALSE
  /\ UNCHANGED <<booted, cwd, behind>>

\* split_args on a line of n words, if they fit.
Split(n) ==
  [i \in Slots |-> IF i < n THEN "own"
                   ELSE IF i = n THEN "null"
                   ELSE IF argv[i] = "null" THEN "null" ELSE "stale"]

-----------------------------------------------------------------------------
\* A path's steps contain x;   do so before step i.
Has(steps, x) == \E i \in DOMAIN steps : steps[i] = x

Before(steps, i, x) == \E j \in 1..(i - 1) : steps[j] = x

\* fopen fails for lack of files, too.
Possible(steps) == Has(steps, "open") => files < MaxFiles

\* A file is used that was not opened, or is closed.
NoFileUsed(steps) ==
  \E i \in DOMAIN steps :
    /\ steps[i] = "use"
    /\ Before(steps, i, "open") => Before(steps, i, "close")

\* The kernel is called on memory that is freed.
Dangles(steps) ==
  \E i \in DOMAIN steps :
    steps[i] \in {"call", "bare", "slot"} /\ Before(steps, i, "free")

LeavesFile(steps) == Has(steps, "open") /\ ~Has(steps, "close")

LeavesMemory(steps) ==
  Has(steps, "alloc") /\ ~Has(steps, "free") /\ ~Has(steps, "keep")

Fate(steps) ==
  IF NoFileUsed(steps) THEN "null"
  ELSE IF Dangles(steps) THEN "dangling"
  ELSE IF LeavesFile(steps) \/ LeavesMemory(steps) THEN "left"
  ELSE "ran"

\* Word i of array a is one of those; an empty array is a NULL argv.
Is(a, i, what) == i \in DOMAIN a /\ a[i] \in what

\* What comes of path p of handler h on array a.
Result(h, p, a) ==
  IF \E i \in p.words : ~Is(a, i, {"own"}) THEN "wild"
  ELSE IF h.tests # {} /\ a = <<>> THEN "wild"
  ELSE IF \E i \in h.tests : Is(a, i, {"stale"}) THEN "stale"
  ELSE Fate(p.steps)

\* The handler of c on n words in array a: its results, and the steps taken.
Called(c, n, a) ==
  IF n \notin Handlers[c].takes THEN {[result |-> "usage", steps |-> <<>>]}
  ELSE {[result |-> Result(Handlers[c], p, a), steps |-> p.steps] :
          p \in {q \in Handlers[c].paths : Possible(q.steps)}}

\* What a path that was taken to its end leaves of the files and the slot.
HostEffect(r, steps) ==
  IF r \in Runs
    THEN /\ files' = IF LeavesFile(steps) THEN files + 1 ELSE files
         /\ refused' = IF Has(steps, "refuse") THEN refused + 1 ELSE refused
         /\ slot' = IF Has(steps, "clear") THEN "EMPTY"
                    ELSE IF Has(steps, "slot") THEN "DONE" ELSE slot
    ELSE UNCHANGED host

\* What is remembered of a line: nothing if its handler ran on its words or
\* answered help or a wrong number of words with its usage.
Outcome(c, n, r) ==
  /\ last' = IF \/ r = "ran" /\ n > 0
                \/ r = "usage" /\ (n = 0 \/ n \notin Handlers[c].doc)
               THEN Fine
               ELSE [cmd |-> c, words |-> n, result |-> r]
  /\ state' = IF r \in Crashes THEN "crashed" ELSE state

-----------------------------------------------------------------------------
\* An empty line, which ic_readline returns as NULL, or a comment.
Skip ==
  /\ state = "reading"
  /\ OnlyPrompt /\ UNCHANGED host
  /\ last' = Fine /\ UNCHANGED state
  /\ UNCHANGED argv

\* "X" or "q".
Quit ==
  /\ state = "reading" /\ state' = "ended"
  /\ OnlyPrompt /\ UNCHANGED host
  /\ last' = [cmd |-> "", words |-> 0, result |-> "quit"]
  /\ UNCHANGED argv

Eof ==
  /\ state = "reading" /\ state' = "ended"
  /\ last' = [cmd |-> "", words |-> 0, result |-> "eof"]
  /\ UNCHANGED <<argv, dirs, host>>

\* A line of white space has no word 0 to compare with the commands' names.
Spaces ==
  /\ state = "reading"
  /\ OnlyPrompt /\ UNCHANGED host
  /\ argv' = Split(0)
  /\ Outcome("", 0, "wild")

\* More words than argv has slots for are written past its end.
TooLong(n) ==
  /\ state = "reading" /\ n > MaxCommandArgs
  /\ OnlyPrompt /\ UNCHANGED host
  /\ UNCHANGED argv
  /\ Outcome("", n, "overflow")

Unknown(n) ==
  /\ state = "reading" /\ n <= MaxCommandArgs
  /\ OnlyPrompt /\ UNCHANGED host
  /\ argv' = Split(n)
  /\ last' = Fine /\ UNCHANGED state

\* These ask the kernel for its directory; scripts boot it before.
DirCommands == {"cd", "set_cwd", "pwd", "switch_to_thread"}

\* Faulty: cd does not set cur_dir_changed.
EffectUnnoticed(c) ==
  /\ booted' = (booted \/ c = "umka_boot")
  /\ cwd' \in IF c \in {"cd", "set_cwd", "switch_to_thread"} THEN Paths ELSE {cwd}
  /\ changed' = FALSE
  /\ cur_dir' = IF c = "pwd" THEN cwd ELSE PromptDir
  /\ behind' = (c = "switch_to_thread" \/ (behind /\ c \notin {"cd", "set_cwd"}))

\* What a handler that ran did to the directories, after the prompt: the
\* kernel decides where cd ends up and where another thread is.
Effect(c) ==
  /\ booted' = (booted \/ c = "umka_boot")
  /\ cwd' \in IF c \in {"cd", "set_cwd", "switch_to_thread"} THEN Paths ELSE {cwd}
  /\ changed' = (c \in {"cd", "set_cwd"})
  /\ cur_dir' = IF c = "pwd" THEN cwd ELSE PromptDir
  /\ behind' = (c = "switch_to_thread" \/ (behind /\ c \notin {"cd", "set_cwd"}))

Command(c, n) ==
  /\ state = "reading" /\ n <= MaxCommandArgs
  /\ c \in DirCommands => booted
  /\ ~(c = "help" /\ n = 2)
  /\ argv' = Split(n)
  /\ Prompt
  /\ \E o \in Called(c, n, argv') :
       /\ Outcome(c, n, o.result)
       /\ HostEffect(o.result, o.steps)
       /\ IF o.result \in Runs
            THEN Effect(c)
            ELSE /\ cur_dir' = PromptDir /\ changed' = FALSE
                 /\ UNCHANGED <<booted, cwd, behind>>

\* cmd_help calls the handler of c with no words and no argv.
Help(c) ==
  /\ state = "reading"
  /\ OnlyPrompt
  /\ argv' = Split(2)
  /\ \E o \in Called(c, 0, <<>>) :
       Outcome(c, 0, o.result) /\ HostEffect(o.result, o.steps)

Next ==
  \/ Skip \/ Quit \/ Eof \/ Spaces
  \/ \E n \in WordCounts : TooLong(n) \/ Unknown(n) \/ \E c \in Commands : Command(c, n)
  \/ \E c \in Commands : Help(c)

Spec == Init /\ [][Next]_vars

-----------------------------------------------------------------------------
(* The guards of the handlers let no line through whose words do not suffice,*)
(* except those of exec and set_keyboard_layout; only i40 looks beyond the   *)
(* end of its line and finds words of freed ones: split_args ends the words  *)
(* with NULL, so that walking argv leads to no older line.  "help on this    *)
(* command usage", which passes a handler no words, executes seven commands. *)
UsesOwnWords ==
  /\ \A i \in Slots : argv[i] = "stale" => \E j \in 0..(i - 1) : argv[j] = "null"
  /\ last.words = 0 /\ last.cmd # "" =>
       last.cmd \in {"get_key", "dump_key_buff", "dump_win_stack", "dump_win_map",
                     "board_get", "net_add_device", "umka_set_boot_params"}
  /\ last.words # 0 =>
       /\ last.result = "wild" => last.cmd \in {"exec", "set_keyboard_layout", "i40"}
       /\ last.result = "stale" => last.cmd = "i40"

(* Whatever the script, the host and the kernel answer, a handler gives back *)
(* what it took: between two lines the command slot is empty, no more files  *)
(* are open than images were refused by ramdisk_init (which returns without  *)
(* fclose until fopen finds none left), memory remains only after bg_put_img *)
(* and a disk_add the kernel refused, no freed memory reaches the kernel,    *)
(* and only three handlers use a file without asking whether fopen found it. *)
GivesBack ==
  /\ slot = "EMPTY"
  /\ files <= refused
  /\ last.result = "left" => last.cmd \in {"ramdisk_init", "bg_put_img", "disk_add"}
  /\ last.result = "null" =>
       last.cmd \in {"put_image", "put_image_palette", "bg_put_img"}
  /\ last.result # "dangling"

(* The prompt shows where the kernel is: the last name of its directory,     *)
(* unless the script went to another thread since the last cd.               *)
PromptShowsCwd ==
  [][booted /\ ~behind /\ last'.result # "eof"
       => shown' = Text(cwd, LastDir(cwd))]_vars

(* A line with as many words as a usage text documents is not answered with  *)
(* that text; the guards of the commands named here disagree with theirs.    *)
DocumentedAccepted ==
  last.result = "usage" =>
    last.cmd \in {"csleep", "bg_set_mode", "bg_put_img", "blit_bitmap",
                  "acpi_call", "board_get"}
============================================================================
