------------------------------ MODULE Settings -----------------------------
(***************************************************************************)
(* Where the options of a run come from (options.cpp, main.cpp), and the   *)
(* command that edits their file (cmd_config()): built-in defaults, then   *)
(* the file, then the command line.  Several processes run at a time, and  *)
(* the user may edit the file by other means.                              *)
(*                                                                         *)
(* An argument is a sequence of one word, or of two when it has a '='.     *)
(* The flags are those that share an option with others or stand for a way *)
(* of reading a value; short names, lists (--include, --header, ...) and   *)
(* durations, which are read as sizes are, are left out.                   *)
(***************************************************************************)
EXTENDS Integers, Sequences, FiniteSets, TLC

CONSTANTS
  Processes,    \* those that can live at a time
  CommandLines, \* sequences of arguments
  Contents,     \* what the user may make of the file
  Dashed,       \* the words that begin with '-'
  Urls,         \* the words that look like a URL
  Numbers,      \* a function from the words that are numbers to their value
  Sizes,        \* a function from the words that are sizes to theirs
  IntSize,      \* how many values an int has
  PortSize,     \* and a port
  MaxEdits,     \* how often the user edits the file
  MaxRuns       \* how many processes there are, one after the other or at a time

ASSUME SettingsAssumption ==
  /\ IntSize \in Nat /\ IntSize % 2 = 0
  /\ PortSize \in Nat \ {0} /\ PortSize < IntSize \div 2 /\ IntSize % PortSize = 0
  /\ \A args \in CommandLines :
       args \in Seq(Seq(STRING)) /\ \A i \in DOMAIN args : Len(args[i]) \in {1, 2}
  /\ DOMAIN Numbers \subseteq DOMAIN Sizes /\ {"true", "false"} \cap DOMAIN Numbers = {}
  /\ \A word \in DOMAIN Numbers : Numbers[word] \in Nat /\ Sizes[word] = Numbers[word]

-----------------------------------------------------------------------------
(* Values, options, flags.                                                 *)

Number(n) == <<"number", n, "">>
Text(word) == <<"text", 0, word>>
Boolean(b) == <<"bool", IF b THEN 1 ELSE 0, "">>

\* struct Options, as far as the flags below go; apply_builtin_defaults().
Defaults ==
  [concurrency |-> Number(8), port |-> Number(80), max_files |-> Number(500),
   recursive |-> Boolean(FALSE), same_origin |-> Boolean(TRUE),
   color |-> Boolean(TRUE), ci |-> Boolean(FALSE),
   list_only |-> Boolean(FALSE), dry_run |-> Boolean(FALSE), show_help |-> Boolean(FALSE),
   user_agent |-> Text("surl"), directory |-> Text("")]

\* The options that the file may give.
Configurable ==
  {"concurrency", "port", "max_files", "recursive", "same_origin", "color", "user_agent"}

\* Flags without a value, and what they do.
Switches ==
  [flag \in {"--recursive", "--same-origin", "--cross-origin", "--list", "--dry-run",
             "--no-color", "--help", "--ci"} |->
     CASE flag = "--recursive"    -> [recursive |-> Boolean(TRUE)]
       [] flag = "--same-origin"  -> [same_origin |-> Boolean(TRUE)]
       [] flag = "--cross-origin" -> [same_origin |-> Boolean(FALSE)]
       [] flag = "--list"         -> [list_only |-> Boolean(TRUE), dry_run |-> Boolean(TRUE)]
       [] flag = "--dry-run"      -> [dry_run |-> Boolean(TRUE)]
       [] flag = "--no-color"     -> [color |-> Boolean(FALSE)]
       [] flag = "--help"         -> [show_help |-> Boolean(TRUE)]
       [] flag = "--ci"           -> [ci |-> Boolean(TRUE), color |-> Boolean(FALSE)]]

\* Flags with a value, and the option it is for.
Valued ==
  [flag \in {"--concurrency", "--port", "--max-files", "--user-agent", "--directory"} |->
     CASE flag = "--concurrency" -> "concurrency"
       [] flag = "--port"        -> "port"
       [] flag = "--max-files"   -> "max_files"
       [] flag = "--user-agent"  -> "user_agent"
       [] flag = "--directory"   -> "directory"]

Commands ==
  {"clone", "mirror", "serve", "inspect", "check", "clean", "doctor", "config", "install",
   "uninstall", "update", "version", "help"}

\* A conversion to int, which has a sign, and to a port, which has none.
ToInt(n) == ((n + IntSize \div 2) % IntSize) - IntSize \div 2
ToPort(n) == n % PortSize

Invalid == <<"invalid", 0, "">>

\* What a flag makes of its value: parse_int() cuts to an int before the range is checked.
FlagValue(flag, word) ==
  LET int(low, high) ==
        IF word \in DOMAIN Numbers /\ ToInt(Numbers[word]) \in low .. high
        THEN Number(ToInt(Numbers[word])) ELSE Invalid
  IN CASE flag = "--concurrency" -> int(1, 256)
       [] flag = "--port"        -> int(1, PortSize - 1)
       [] flag = "--max-files"   -> IF word \in DOMAIN Sizes /\ Sizes[word] # 0
                                    THEN Number(Sizes[word]) ELSE Invalid
       [] OTHER                  -> Text(word)

\* What the file makes of a value: no range is checked, and one of another type is ignored.
FileValue(option, value) ==
  IF value[1] # Defaults[option][1] THEN Defaults[option]
  ELSE CASE option = "concurrency" -> Number(ToInt(value[2]))
         [] option = "port"        -> Number(ToPort(value[2]))
         [] OTHER                  -> value

\* Mutant of Stored: everything is text.
StoredAsText(word) == Text(word)

\* How `config set` stores a word.
Stored(word) ==
  CASE word = "true" -> Boolean(TRUE)
    [] word = "false" -> Boolean(FALSE)
    [] word \in DOMAIN Numbers -> Number(Numbers[word])
    [] OTHER -> Text(word)

ASSUME FlagsAreDashed == {"--"} \cup DOMAIN Switches \cup DOMAIN Valued \subseteq Dashed

\* Values with others in their place, with one more key, and without a key.
Override(values, others) ==
  [o \in DOMAIN values |-> IF o \in DOMAIN others THEN others[o] ELSE values[o]]
With(values, key, value) ==
  [k \in DOMAIN values \cup {key} |-> IF k = key THEN value ELSE values[k]]
Without(values, key) == [k \in DOMAIN values \ {key} |-> values[k]]

-----------------------------------------------------------------------------

VARIABLES
  file,         \* [kind: "absent", "broken", "object" or "other" JSON; keys: its values]
  phase,        \* of each process: "new", "parse", "config", "write", "run", "done"
  line,         \* its command line
  command,
  at,           \* the next argument
  opts,         \* its options
  words,        \* the positional arguments
  root,         \* what `config` has read
  code,         \* the exit code
  edits,        \* how often the user has edited the file
  runs,         \* how many processes have started
  wanted,       \* the words last set by `config`, of each key
  stale,        \* the processes that have not read the file as it is now
  steady,       \* nothing but one `config` at a time has changed the file
  found         \* what was wanted of the file when a process read it

vars == <<file, phase, line, command, at, opts, words, root, code, edits, runs, wanted, stale, steady, found>>
own == <<line, command, at, opts, words, root, found>>

Absent == [kind |-> "absent", keys |-> <<>>]
Object(keys) == [kind |-> "object", keys |-> keys]

Init ==
  /\ file = Absent
  /\ phase = [p \in Processes |-> "new"]
  /\ line = [p \in Processes |-> <<>>]
  /\ command = [p \in Processes |-> "clone"]
  /\ at = [p \in Processes |-> 1]
  /\ opts = [p \in Processes |-> Defaults]
  /\ words = [p \in Processes |-> <<>>]
  /\ root = [p \in Processes |-> <<>>]
  /\ code = [p \in Processes |-> 0]
  /\ edits = 0
  /\ runs = 0
  /\ wanted = <<>>
  /\ stale = {}
  /\ steady = TRUE
  /\ found = [p \in Processes |-> <<>>]

\* What can be read of the file: a read that fails finds none.
Readings == {file, Absent}

-----------------------------------------------------------------------------
(* Reading the file and the command line.                                  *)

\* apply_config_file() after apply_builtin_defaults(): a broken file is only warned about.
FromFile(content) ==
  [o \in DOMAIN Defaults |->
     IF content.kind = "object" /\ o \in Configurable \cap DOMAIN content.keys
     THEN FileValue(o, content.keys[o]) ELSE Defaults[o]]

\* What `mirror` presets.
MirrorDefaults == [recursive |-> Boolean(TRUE), same_origin |-> Boolean(TRUE)]

\* The first word may be a command.
Named(args) ==
  args # <<>> /\ args[1][1] \notin Dashed \cup Urls

\* main() up to the first argument.
Start(p) ==
  /\ phase[p] \in {"new", "run", "done"} /\ runs < MaxRuns
  /\ runs' = runs + 1
  /\ \E args \in CommandLines, content \in Readings :
       LET name == IF args # <<>> /\ Named(args) THEN args[1][1] ELSE "clone"
           known == Named(args) => args[1] = <<name>> /\ name \in Commands
       IN /\ line' = [line EXCEPT ![p] = args]
          /\ command' = [command EXCEPT ![p] = IF args = <<>> THEN "help" ELSE name]
          /\ opts' = [opts EXCEPT ![p] = Override(FromFile(content),
                        CASE args = <<>>     -> [show_help |-> Boolean(TRUE)]
                          [] name = "mirror" -> MirrorDefaults
                          [] OTHER           -> <<>>)]
          /\ at' = [at EXCEPT ![p] = IF Named(args) THEN 2 ELSE 1]
          /\ phase' = [phase EXCEPT ![p] = IF ~known THEN "done" ELSE "parse"]
          /\ code' = [code EXCEPT ![p] = IF ~known THEN 2 ELSE 0]
          /\ found' = [found EXCEPT ![p] = IF steady /\ content = file THEN wanted ELSE <<>>]
  /\ words' = [words EXCEPT ![p] = <<>>]
  /\ root' = [root EXCEPT ![p] = <<>>]
  /\ stale' = stale \ {p}
  /\ UNCHANGED <<file, edits, wanted, steady>>

Here(p) == line[p][at[p]]
Parsing(p) == phase[p] = "parse" /\ at[p] <= Len(line[p])

\* The word or words of an argument as one text.
Whole(argument) == IF Len(argument) = 1 THEN argument[1] ELSE ToString(argument)

\* "--": all that follows is positional.
TakeRest(p) ==
  /\ Parsing(p) /\ Here(p) = <<"--">>
  /\ words' = [words EXCEPT ![p] =
       @ \o [i \in 1 .. Len(line[p]) - at[p] |-> Whole(line[p][at[p] + i])]]
  /\ at' = [at EXCEPT ![p] = Len(line[p]) + 1]
  /\ UNCHANGED <<file, phase, line, command, opts, root, code, edits, runs, wanted, stale, steady, found>>

TakeWord(p) ==
  /\ Parsing(p) /\ Here(p)[1] \notin Dashed
  /\ words' = [words EXCEPT ![p] = Append(@, Whole(Here(p)))]
  /\ at' = [at EXCEPT ![p] = @ + 1]
  /\ UNCHANGED <<file, phase, line, command, opts, root, code, edits, runs, wanted, stale, steady, found>>

\* A value that is given to a switch with '=' makes no difference.
TakeSwitch(p) ==
  /\ Parsing(p) /\ Here(p) # <<"--">> /\ Here(p)[1] \in DOMAIN Switches
  /\ opts' = [opts EXCEPT ![p] = Override(@, Switches[Here(p)[1]])]
  /\ at' = [at EXCEPT ![p] = @ + 1]
  /\ UNCHANGED <<file, phase, line, command, words, root, code, edits, runs, wanted, stale, steady, found>>

\* need_value(): behind the '=', or the next argument whatever it looks like.
HasValue(p) == Len(Here(p)) = 2 \/ at[p] < Len(line[p])
ValueHere(p) == IF Len(Here(p)) = 2 THEN Here(p)[2] ELSE Whole(line[p][at[p] + 1])

\* Mutant of TakeValue: the value of a flag is looked at again as an argument.
TakeValueTwice(p) ==
  /\ Parsing(p) /\ Here(p)[1] \in DOMAIN Valued /\ HasValue(p)
  /\ FlagValue(Here(p)[1], ValueHere(p)) # Invalid
  /\ opts' = [opts EXCEPT ![p][Valued[Here(p)[1]]] = FlagValue(Here(p)[1], ValueHere(p))]
  /\ at' = [at EXCEPT ![p] = @ + 1]
  /\ UNCHANGED <<file, phase, line, command, words, root, code, edits, runs, wanted, stale, steady, found>>

TakeValue(p) ==
  /\ Parsing(p) /\ Here(p)[1] \in DOMAIN Valued /\ HasValue(p)
  /\ FlagValue(Here(p)[1], ValueHere(p)) # Invalid
  /\ opts' = [opts EXCEPT ![p][Valued[Here(p)[1]]] = FlagValue(Here(p)[1], ValueHere(p))]
  /\ at' = [at EXCEPT ![p] = @ + IF Len(Here(p)) = 2 THEN 1 ELSE 2]
  /\ UNCHANGED <<file, phase, line, command, words, root, code, edits, runs, wanted, stale, steady, found>>

\* An unknown flag, a value that is missing, and one that is refused.
Refuse(p) ==
  /\ Parsing(p) /\ Here(p) # <<"--">> /\ Here(p)[1] \in Dashed
  /\ Here(p)[1] \notin DOMAIN Switches
  /\ Here(p)[1] \in DOMAIN Valued /\ HasValue(p)
       => FlagValue(Here(p)[1], ValueHere(p)) = Invalid
  /\ phase' = [phase EXCEPT ![p] = "done"]
  /\ code' = [code EXCEPT ![p] = 2]
  /\ UNCHANGED <<file, edits, runs, wanted, stale, steady>> /\ UNCHANGED own

\* The end of parse_command_line(), and run_command(): a directory may be positional.
Distribute(p) ==
  /\ phase[p] = "parse" /\ at[p] > Len(line[p])
  /\ LET directory == command[p] \in {"serve", "inspect", "check", "clean"}
         takes == words[p] # <<>> /\ (directory \/ command[p] \in {"clone", "mirror"})
     IN /\ words' = IF takes THEN [words EXCEPT ![p] = Tail(@)] ELSE words
        /\ opts' = IF takes /\ directory
                   THEN [opts EXCEPT ![p]["directory"] = Text(words[p][1])] ELSE opts
  /\ phase' = [phase EXCEPT ![p] = IF opts[p]["show_help"] = Boolean(TRUE) THEN "done"
                                   ELSE IF command[p] = "config" THEN "config" ELSE "run"]
  /\ UNCHANGED <<file, line, command, at, root, code, edits, runs, wanted, stale, steady, found>>

-----------------------------------------------------------------------------
(* cmd_config().                                                           *)

Action(p) == IF words[p] = <<>> THEN "show" ELSE words[p][1]
Key(p) == words[p][2]

\* Mutant of Rejects: a broken file counts as empty.
RejectsNone(content) == FALSE

\* A file that is not JSON is refused; one that is no object counts as empty.
Rejects(content) == content.kind = "broken"

\* Everything up to the write: the whole file is read, and none counts as empty.
ConfigRead(p) ==
  /\ phase[p] = "config"
  /\ \E content \in Readings :
       LET keys == IF content.kind = "object" THEN content.keys ELSE <<>>
           enough == Len(words[p]) >= (IF Action(p) = "set" THEN 3 ELSE 2)
           ends(n) == /\ phase' = [phase EXCEPT ![p] = "done"]
                      /\ code' = [code EXCEPT ![p] = n]
                      /\ UNCHANGED <<root, stale>>
       IN CASE Action(p) = "path" -> ends(0)
            [] Action(p) # "path" /\ Rejects(content) -> ends(1)
            [] Action(p) = "show" /\ ~Rejects(content) -> ends(0)
            [] Action(p) = "get" /\ ~Rejects(content) ->
                 ends(IF ~enough THEN 2 ELSE IF Key(p) \in DOMAIN keys THEN 0 ELSE 1)
            [] Action(p) \in {"set", "unset"} /\ ~Rejects(content) /\ enough ->
                 /\ phase' = [phase EXCEPT ![p] = "write"]
                 /\ root' = [root EXCEPT ![p] = keys]
                 /\ stale' = IF content = file THEN stale ELSE stale \cup {p}
                 /\ UNCHANGED code
            [] OTHER -> ends(2)
  /\ UNCHANGED <<file, line, command, at, opts, words, edits, runs, wanted, steady, found>>

\* Mutant of Edited: a key is set in an empty file.
EditedAlone(p) ==
  IF Action(p) = "set" THEN With(<<>>, Key(p), Stored(words[p][3]))
  ELSE Without(root[p], Key(p))

\* The file with a key set or removed.
Edited(p) ==
  IF Action(p) = "set" THEN With(root[p], Key(p), Stored(words[p][3]))
  ELSE Without(root[p], Key(p))

\* What is wanted after the edit.
WantedAfter(p) ==
  IF Action(p) = "set" THEN With(wanted, Key(p), words[p][3])
  ELSE Without(wanted, Key(p))

\* write_file_atomic(); what has changed since the file was read is lost.
ConfigWrite(p) ==
  /\ phase[p] = "write"
  /\ phase' = [phase EXCEPT ![p] = "done"]
  /\ \/ /\ file' = Object(Edited(p))
        /\ wanted' = WantedAfter(p)
        /\ steady' = (steady /\ p \notin stale)
        /\ stale' = {q \in Processes : phase'[q] = "write"}
        /\ UNCHANGED code
     \/ code' = [code EXCEPT ![p] = 1] /\ UNCHANGED <<file, wanted, stale, steady>>
  /\ UNCHANGED <<edits, runs>> /\ UNCHANGED own

-----------------------------------------------------------------------------

\* The user edits the file.
UserEdits ==
  /\ edits < MaxEdits
  /\ edits' = edits + 1
  /\ file' \in Contents
  /\ steady' = FALSE
  /\ stale' = {p \in Processes : phase[p] = "write"}
  /\ UNCHANGED <<phase, code, runs, wanted>> /\ UNCHANGED own

Parse(p) ==
  TakeRest(p) \/ TakeWord(p) \/ TakeSwitch(p) \/ TakeValue(p) \/ Refuse(p) \/ Distribute(p)

Next ==
  \/ \E p \in Processes : Start(p) \/ Parse(p) \/ ConfigRead(p) \/ ConfigWrite(p)
  \/ UserEdits

Spec == Init /\ [][Next]_vars

-----------------------------------------------------------------------------
(* Properties.                                                             *)

\* The arguments that are the value of the flag in front of them, and those behind "--".
Values(args) ==
  LET value[j \in 0 .. Len(args)] ==
        j > 1 /\ Len(args[j - 1]) = 1 /\ args[j - 1][1] \in DOMAIN Valued /\ ~value[j - 1]
  IN {j \in DOMAIN args : value[j]}
Behind(args) ==
  {j \in DOMAIN args : \E k \in 1 .. j - 1 : args[k] = <<"--">> /\ k \notin Values(args)}

\* The arguments that are flags for an option, and what one of them says.
Given(args, o) ==
  {j \in DOMAIN args \ (Values(args) \cup Behind(args)) :
     LET flag == args[j][1]
     IN \/ flag \in DOMAIN Valued /\ Valued[flag] = o
        \/ flag \in DOMAIN Switches /\ o \in DOMAIN Switches[flag]}
Says(args, j, o) ==
  IF args[j][1] \in DOMAIN Switches THEN Switches[args[j][1]][o]
  ELSE FlagValue(args[j][1], IF Len(args[j]) = 2 THEN args[j][2] ELSE Whole(args[j + 1]))

Ready(p) == phase[p] \in {"run", "config"}

\* The last flag for an option decides, wherever it stands and whatever the file says; and
\* no argument that is a value, or stands behind "--", is taken for a flag.
FlagsDecide ==
  \A p \in Processes : Ready(p) =>
    \A o \in DOMAIN Defaults \ {"directory"} :
      LET given == Given(line[p], o)
      IN IF given # {}
         THEN \E j \in given : (\A i \in given : i <= j) /\ opts[p][o] = Says(line[p], j, o)
         ELSE o \notin Configurable => opts[p][o] = Defaults[o]

\* What a word means for an option: what a flag would make of it.
Meaning(o, word) ==
  CASE Defaults[o][1] = "bool" -> IF word \in {"true", "false"} THEN Boolean(word = "true") ELSE Invalid
    [] Defaults[o][1] = "text" -> IF word \in DOMAIN Numbers \cup {"true", "false"} THEN Invalid ELSE Text(word)
    [] OTHER -> IF word \in DOMAIN Numbers
                THEN FlagValue(CHOOSE flag \in DOMAIN Valued : Valued[flag] = o, word) ELSE Invalid

\* "Store numbers and booleans with their real types so the loader can read them back
\* without guessing" (commands.cpp:509): what `config set` was told, a run without a flag
\* for it uses as the flag would have it.  Words that the flag refuses, sizes with a unit,
\* texts that look like a number, and what `mirror` presets are left out.
SetIsUsed ==
  \A p \in Processes : Ready(p) =>
    \A o \in Configurable \cap DOMAIN found[p] :
      /\ Given(line[p], o) = {} /\ Meaning(o, found[p][o]) # Invalid
      /\ command[p] = "mirror" => o \notin DOMAIN MirrorDefaults
      => opts[p][o] = Meaning(o, found[p][o])

\* "which always overrides the built-in defaults" (README.md:325), for `mirror` as well.
FileOverridesDefaults ==
  \A p \in Processes : Ready(p) =>
    \A o \in Configurable \cap DOMAIN found[p] :
      Given(line[p], o) = {} /\ Meaning(o, found[p][o]) # Invalid => opts[p][o] = Meaning(o, found[p][o])

\* As long as each `config` has read what the one before it wrote, the file holds all that
\* was set, and nothing else.
EditsAddUp ==
  steady => /\ file \in {Absent, Object([k \in DOMAIN wanted |-> Stored(wanted[k])])}
            /\ file = Absent => wanted = <<>>

\* A file that was broken by hand is not replaced, but by a `config` that had read it
\* before or could not read it.
BrokenIsKept ==
  [][file.kind = "broken" /\ file' # file /\ edits' = edits
       => \E p \in stale : phase[p] = "write" /\ phase'[p] = "done"]_vars
=============================================================================
