-------------------------- MODULE Settings_proofs --------------------------
(***************************************************************************)
(* Proofs about Settings.                                                  *)
(*                                                                         *)
(* Editing: a process that is about to write the file and is not stale has *)
(* the keys of the file as it is (Fresh); so what it writes adds to them,  *)
(* and a broken file is no file that it has.                               *)
(*                                                                         *)
(* Reading: up to the next argument, each option is what the last flag for *)
(* it says, or what the file or the default makes of it (Reading), and the *)
(* next argument is neither a value nor behind a "--".  Which arguments    *)
(* are values is defined by recursion along the line: that there is such a *)
(* function is shown by its smallest counterexample (ValuesExist).  What   *)
(* `config set` stores means to the loader what it would mean to the flag  *)
(* (ReadBack).                                                             *)
(***************************************************************************)
EXTENDS Settings, SequenceTheorems, WellFoundedInduction, TLAPS


\* A set of numbers that is not empty has a smallest one.
LEMMA Smallest ==
  ASSUME NEW T \in SUBSET Nat, T # {}
  PROVE  \E x \in T : \A y \in T : x <= y
<1>1. \E x \in T : \A y \in T : ~ (<<y, x>> \in OpToRel(<, Nat))
  BY NatLessThanWellFounded, WFMin, Zenon
<1>2. PICK x \in T : \A y \in T : ~ (<<y, x>> \in OpToRel(<, Nat))
  BY <1>1, Zenon
<1>3. ASSUME NEW y \in T PROVE x <= y
  <2>1. <<y, x>> \in Nat \X Nat /\ ~ (<<y, x>> \in OpToRel(<, Nat))
    BY <1>2
  <2>2. ~ (y < x)
    BY <2>1 DEF OpToRel
  <2>3. QED
    BY <2>2
<1>4. QED
  BY <1>3

-----------------------------------------------------------------------------
(* Tables.                                                                 *)

\* The options there are.
LEMMA DefaultsDomain ==
  DOMAIN Defaults =
    {"concurrency", "port", "max_files", "recursive", "same_origin", "color", "ci",
     "list_only", "dry_run", "show_help", "user_agent", "directory"}
BY DEF Defaults

\* The flags that take a value.
LEMMA ValuedDomain ==
  DOMAIN Valued = {"--concurrency", "--port", "--max-files", "--user-agent", "--directory"}
BY DEF Valued

\* No flag is of both kinds, and "--" is none.
LEMMA FlagsDiffer ==
  /\ (DOMAIN Switches) \cap (DOMAIN Valued) = {}
  /\ "--" \notin (DOMAIN Switches) \cup (DOMAIN Valued)
BY ValuedDomain DEF Switches

\* Flags, and the file, set options that there are.
LEMMA FlagsSetOptions ==
  /\ \A f \in DOMAIN Switches : DOMAIN Switches[f] \subseteq DOMAIN Defaults
  /\ \A f \in DOMAIN Valued : Valued[f] \in DOMAIN Defaults
  /\ Configurable \subseteq DOMAIN Defaults
<1>1. \A f \in DOMAIN Switches : DOMAIN Switches[f] \subseteq DOMAIN Defaults
  BY DefaultsDomain DEF Switches
<1>2. \A f \in DOMAIN Valued : Valued[f] \in DOMAIN Defaults
  BY DefaultsDomain, ValuedDomain DEF Valued
<1>3. Configurable \subseteq DOMAIN Defaults
  BY DefaultsDomain DEF Configurable
<1>4. QED
  BY <1>1, <1>2, <1>3

-----------------------------------------------------------------------------
(* Command lines.                                                          *)

\* An argument that takes the next one for its value, unless it is a value itself.
Takes(args, j) == Len(args[j]) = 1 /\ args[j][1] \in DOMAIN Valued

IsValues(value, args) ==
  value = [j \in 0 .. Len(args) |->
             j > 1 /\ Len(args[j - 1]) = 1 /\ args[j - 1][1] \in DOMAIN Valued /\ ~ value[j - 1]]

\* There is a function that says of each argument whether it is a value.
LEMMA ValuesExist ==
  ASSUME NEW args, Len(args) \in Nat
  PROVE  \E value : IsValues(value, args)
<1> DEFINE L == Len(args)
           Right(value, j) == value[j] = (j > 1 /\ Takes(args, j - 1) /\ ~ value[j - 1])
           bad == {n \in 0 .. L : ~ \E value \in [0 .. L -> BOOLEAN] : \A j \in 0 .. n : Right(value, j)}
<1>1. L \in Nat
  OBVIOUS
<1>2. bad = {}
  <2>1. SUFFICES ASSUME bad # {} PROVE FALSE
    OBVIOUS
  <2>2. bad \in SUBSET Nat
    OBVIOUS
  <2> HIDE DEF Right
  <2>3. PICK n \in bad : \A m \in bad : n <= m
    BY <2>1, <2>2, Smallest
  <2>4. CASE n = 0
    <3> DEFINE value == [j \in 0 .. L |-> FALSE]
    <3>1. value \in [0 .. L -> BOOLEAN]
      OBVIOUS
    <3>2. value[0] = FALSE
      BY <1>1
    <3> HIDE DEF value
    <3>3. ~ (0 > 1)
      OBVIOUS
    <3>4. Right(value, 0)
      BY <3>2, <3>3, Zenon DEF Right
    <3>5. QED
      BY <2>3, <2>4, <3>1, <3>4
  <2>5. CASE n # 0
    <3>1. n \in 1 .. L /\ n - 1 \in 0 .. L /\ ~ (n <= n - 1)
      BY <1>1, <2>3, <2>5
    <3>2. n - 1 \notin bad
      BY <2>3, <3>1
    <3>3. PICK value \in [0 .. L -> BOOLEAN] : \A j \in 0 .. n - 1 : Right(value, j)
      BY <3>1, <3>2
    <3> DEFINE last == (n > 1 /\ Takes(args, n - 1) /\ ~ value[n - 1])
               more == [value EXCEPT ![n] = last]
    <3>4. last \in BOOLEAN
      BY Zenon
    <3> HIDE DEF last
    <3>5. more \in [0 .. L -> BOOLEAN] /\ more[n] = last
      BY <3>1, <3>4
    <3>6. \A j \in 0 .. n - 1 : more[j] = value[j]
      BY <1>1, <3>1
    <3> HIDE DEF more
    <3>7. ASSUME NEW j \in 0 .. n - 1 PROVE Right(more, j)
      <4>1. Right(value, j) /\ more[j] = value[j]
        BY <3>3, <3>6
      <4>2. CASE j > 1
        <5>1. j - 1 \in 0 .. n - 1
          BY <3>1, <4>2
        <5>2. more[j - 1] = value[j - 1]
          BY <3>6, <5>1
        <5>3. QED
          BY <4>1, <5>2, Zenon DEF Right
      <4>3. CASE ~ (j > 1)
        BY <4>1, <4>3, Zenon DEF Right
      <4>4. QED
        BY <4>2, <4>3
    <3>8. Right(more, n)
      <4>1. n - 1 \in 0 .. n - 1
        BY <3>1
      <4>2. more[n - 1] = value[n - 1]
        BY <3>6, <4>1
      <4>3. QED
        BY <3>5, <4>2, Zenon DEF Right, last
    <3>9. \A j \in 0 .. n : j \in 0 .. n - 1 \/ j = n
      BY <3>1
    <3>10. \A j \in 0 .. n : Right(more, j)
      BY <3>7, <3>8, <3>9
    <3>11. QED
      BY <2>3, <3>5, <3>10
  <2>6. QED
    BY <2>4, <2>5
<1>3. PICK value \in [0 .. L -> BOOLEAN] : \A j \in 0 .. L : Right(value, j)
  <2>1. L \in 0 .. L
    BY <1>1
  <2>2. QED
    BY <1>2, <2>1
<1>4. value = [j \in 0 .. L |-> j > 1 /\ Takes(args, j - 1) /\ ~ value[j - 1]]
  BY <1>3
<1>5. QED
  BY <1>4 DEF IsValues, Takes

\* The first argument is no value; each other is one just when the one in front of it takes
\* a value and is none.
LEMMA ValuesFollow ==
  ASSUME NEW args \in Seq(Seq(STRING))
  PROVE  /\ Values(args) \subseteq 1 .. Len(args)
         /\ 1 \notin Values(args)
         /\ \A j \in 1 .. Len(args) - 1 :
              j + 1 \in Values(args) <=> Takes(args, j) /\ j \notin Values(args)
<1>1. Len(args) \in Nat /\ DOMAIN args = 1 .. Len(args)
  OBVIOUS
<1>2. \E value : IsValues(value, args)
  BY <1>1, ValuesExist
<1>3. PICK value : IsValues(value, args) /\ Values(args) = {j \in DOMAIN args : value[j]}
  BY <1>2 DEF Values, IsValues
<1>4. \A j \in 0 .. Len(args) : value[j] = (j > 1 /\ Takes(args, j - 1) /\ ~ value[j - 1])
  BY <1>3 DEF IsValues, Takes
<1>5. 1 \notin Values(args)
  <2>1. SUFFICES ASSUME 1 \in Values(args) PROVE FALSE
    OBVIOUS
  <2>2. value[1] /\ 1 \in 0 .. Len(args) /\ ~ (1 > 1)
    BY <1>1, <1>3, <2>1
  <2>3. value[1] = (1 > 1 /\ Takes(args, 1 - 1) /\ ~ value[1 - 1])
    BY <1>4, <2>2
  <2>4. QED
    BY <2>2, <2>3, Zenon
<1>6. ASSUME NEW j \in 1 .. Len(args) - 1
      PROVE  j + 1 \in Values(args) <=> Takes(args, j) /\ j \notin Values(args)
  <2>1. j \in DOMAIN args /\ j + 1 \in DOMAIN args /\ j + 1 \in 0 .. Len(args)
        /\ (j + 1) - 1 = j /\ j + 1 > 1
    BY <1>1
  <2>2. value[j + 1] = (Takes(args, j) /\ ~ value[j])
    BY <1>4, <2>1
  <2>3. QED
    BY <1>3, <2>1, <2>2
<1>7. QED
  BY <1>1, <1>3, <1>5, <1>6


-----------------------------------------------------------------------------
(* Editing the file.                                                       *)

Phases == {"new", "parse", "config", "write", "run", "done"}
Lines == CommandLines \cup {<<>>}

\* The variables are functions of the processes, of the shape that the steps rely on.
Shape ==
  /\ DOMAIN phase = Processes /\ DOMAIN line = Processes /\ DOMAIN command = Processes
  /\ DOMAIN at = Processes /\ DOMAIN opts = Processes /\ DOMAIN words = Processes
  /\ DOMAIN root = Processes /\ DOMAIN code = Processes /\ DOMAIN found = Processes
  /\ \A p \in Processes :
       /\ phase[p] \in Phases /\ line[p] \in Lines
       /\ at[p] \in 1 .. Len(line[p]) + 1
       /\ DOMAIN opts[p] = DOMAIN Defaults
  /\ edits \in Nat

\* A command line is a sequence of arguments of one word or two.
LEMMA LineTypes ==
  ASSUME NEW args \in Lines
  PROVE  /\ args \in Seq(Seq(STRING)) /\ Len(args) \in Nat /\ DOMAIN args = 1 .. Len(args)
         /\ \A i \in 1 .. Len(args) : Len(args[i]) \in {1, 2} /\ args[i] \in Seq(STRING)
<1>1. args \in Seq(Seq(STRING))
  BY SettingsAssumption, EmptySeq DEF Lines
<1>2. Len(args) \in Nat /\ DOMAIN args = 1 .. Len(args)
  BY <1>1
<1>3. ASSUME NEW i \in 1 .. Len(args) PROVE Len(args[i]) \in {1, 2} /\ args[i] \in Seq(STRING)
  <2>1. args \in CommandLines
    BY <1>3 DEF Lines
  <2>2. Len(args[i]) \in {1, 2}
    BY <1>2, <2>1, SettingsAssumption
  <2>3. QED
    BY <1>1, <2>2, ElementOfSeq
<1>4. QED
  BY <1>1, <1>2, <1>3

KeysOf(content) == IF content.kind = "object" THEN content.keys ELSE <<>>

\* What ConfigRead leaves the process with: an exit code, or the keys to edit.
LEMMA ReadingEnds ==
  ASSUME NEW p \in Processes, ConfigRead(p)
  PROVE  /\ phase[p] = "config"
         /\ UNCHANGED <<file, line, command, at, opts, words, edits, runs, wanted, steady, found>>
         /\ \/ /\ phase' = [phase EXCEPT ![p] = "done"]
               /\ \E n : code' = [code EXCEPT ![p] = n]
               /\ UNCHANGED <<root, stale>>
            \/ \E content \in Readings :
                 /\ ~ Rejects(content)
                 /\ phase' = [phase EXCEPT ![p] = "write"]
                 /\ root' = [root EXCEPT ![p] = KeysOf(content)]
                 /\ stale' = IF content = file THEN stale ELSE stale \cup {p}
                 /\ UNCHANGED code
<1> DEFINE ends(n) == /\ phase' = [phase EXCEPT ![p] = "done"]
                      /\ code' = [code EXCEPT ![p] = n]
                      /\ UNCHANGED <<root, stale>>
<1>1. PICK content \in Readings :
        LET keys == KeysOf(content)
            enough == Len(words[p]) >= (IF Action(p) = "set" THEN 3 ELSE 2)
        IN CASE Action(p) = "path" -> ends(0)
             [] Action(p) # "path" /\ Rejects(content) -> ends(1)
             [] Action(p) = "show" /\ ~Rejects(content) -> ends(0)
             [] Action(p) = "get" /\ ~Rejects(content) ->
                  ends(IF ~enough THEN 2 ELSE IF Key(p) \in DOMAIN keys THEN 0 ELSE 1)
             [] Action(p) \in {"set", "unset"} /\ ~Rejects(content) /\ enough ->
                  /\ phase' = [phase EXCEPT ![p] = "write"]
                  /\ root' = [root EXCEPT ![p] = keys]
                  /\ stale' = IF content = file THEN stale ELSE stale \cup {p}
                  /\ UNCHANGED code
             [] OTHER -> ends(2)
  BY Zenon DEF ConfigRead, KeysOf
<1> DEFINE enough == Len(words[p]) >= (IF Action(p) = "set" THEN 3 ELSE 2)
           edits_it == Action(p) \in {"set", "unset"} /\ ~Rejects(content) /\ enough
           writes == /\ phase' = [phase EXCEPT ![p] = "write"]
                     /\ root' = [root EXCEPT ![p] = KeysOf(content)]
                     /\ stale' = IF content = file THEN stale ELSE stale \cup {p}
                     /\ UNCHANGED code
<1>2. "path" # "show" /\ "path" # "get" /\ "show" # "get"
      /\ "path" \notin {"set", "unset"} /\ "show" \notin {"set", "unset"} /\ "get" \notin {"set", "unset"}
  OBVIOUS
<1> HIDE DEF ends, enough
<1>3. (\E n : ends(n)) \/ (~ Rejects(content) /\ writes)
  <2>1. CASE Action(p) = "path"
    BY <1>1, <1>2, <2>1, Zenon
  <2>2. CASE Action(p) # "path" /\ Rejects(content)
    BY <1>1, <1>2, <2>2, Zenon
  <2>3. CASE Action(p) = "show" /\ ~ Rejects(content)
    BY <1>1, <1>2, <2>3, Zenon
  <2>4. CASE Action(p) = "get" /\ ~ Rejects(content)
    BY <1>1, <1>2, <2>4, Zenon
  <2>5. CASE edits_it
    BY <1>1, <1>2, <2>5, Zenon DEF enough
  <2>6. CASE /\ Action(p) # "path" /\ ~ Rejects(content) /\ Action(p) # "show"
             /\ Action(p) # "get" /\ ~ edits_it
    BY <1>1, <1>2, <2>6, Zenon DEF enough
  <2>7. QED
    BY <2>1, <2>2, <2>3, <2>4, <2>5, <2>6
<1>4. QED
  BY <1>3, Zenon DEF ends, ConfigRead

\* Every step keeps the shape, and no next argument is more than one behind the last.
LEMMA StepShape == Shape /\ [Next]_vars => Shape'
<1> SUFFICES ASSUME Shape, [Next]_vars PROVE Shape'
  OBVIOUS
<1> USE DEF Shape
<1>1. ASSUME NEW p \in Processes, Start(p) PROVE Shape'
  <2>1. PICK args \in CommandLines, content \in Readings :
          LET name == IF args # <<>> /\ Named(args) THEN args[1][1] ELSE "clone"
              known == Named(args) => args[1] = <<name>> /\ name \in Commands
          IN /\ line' = [line EXCEPT ![p] = args]
             /\ command' = [command EXCEPT ![p] = IF args = <<>> THEN "help" ELSE name]
             /\ opts' = [opts EXCEPT ![p] = Override(FromFile(content),
                           CASE args = <<>>     -> [show_help |-> Boolean(TRUE)]
                             [] name = "mirror" -> MirrorDefaults
                             [] OTHER           -> <<>>)]
             /\ at' = [at EXCEPT ![p] = IF Named(args) THEN 2 ELSE 1]
             /\ phase' = [phase EXCEPT ![p] = IF ~known THEN "done" ELSE "parse"]
             /\ code' = [code EXCEPT ![p] = IF ~known THEN 2 ELSE 0]
             /\ found' = [found EXCEPT ![p] = IF steady /\ content = file THEN wanted ELSE <<>>]
    BY <1>1, Zenon DEF Start
  <2> DEFINE preset == opts'[p]
  <2>2. /\ DOMAIN phase' = Processes /\ DOMAIN line' = Processes /\ DOMAIN command' = Processes
        /\ DOMAIN at' = Processes /\ DOMAIN opts' = Processes /\ DOMAIN code' = Processes
        /\ DOMAIN found' = Processes
    BY <2>1
  <2>3. DOMAIN words' = Processes /\ DOMAIN root' = Processes /\ edits' = edits
    BY <1>1 DEF Start
  <2>4. args \in Lines /\ line'[p] = args
    BY <2>1 DEF Lines
  <2>5. at'[p] \in 1 .. Len(args) + 1
    <3>1. at'[p] = IF Named(args) THEN 2 ELSE 1
      BY <2>1
    <3>2. Named(args) => Len(args) \in Nat \ {0}
      BY <2>4, LineTypes, EmptySeq DEF Named
    <3>3. QED
      BY <2>4, <3>1, <3>2, LineTypes
  <2>6. phase'[p] \in Phases
    BY <2>1 DEF Phases
  <2>7. DOMAIN opts'[p] = DOMAIN Defaults
    BY <2>1 DEF Override, FromFile
  <2>8. ASSUME NEW q \in Processes, q # p
        PROVE  phase'[q] = phase[q] /\ line'[q] = line[q] /\ at'[q] = at[q] /\ opts'[q] = opts[q]
    BY <2>1, <2>8
  <2>9. QED
    BY <2>2, <2>3, <2>4, <2>5, <2>6, <2>7, <2>8
<1>2. ASSUME NEW p \in Processes, Parsing(p)
      PROVE  /\ at[p] \in 1 .. Len(line[p]) /\ Len(line[p]) \in Nat
             /\ Len(Here(p)) \in {1, 2}
  BY <1>2, LineTypes DEF Parsing, Here
<1>3. ASSUME NEW p \in Processes, TakeRest(p) PROVE Shape'
  BY <1>2, <1>3 DEF TakeRest
<1>4. ASSUME NEW p \in Processes, TakeWord(p) PROVE Shape'
  BY <1>2, <1>4 DEF TakeWord
<1>5. ASSUME NEW p \in Processes, TakeSwitch(p) PROVE Shape'
  BY <1>2, <1>5 DEF TakeSwitch, Override
<1>6. ASSUME NEW p \in Processes, TakeValue(p) PROVE Shape'
  <2>1. at[p] + (IF Len(Here(p)) = 2 THEN 1 ELSE 2) \in 1 .. Len(line[p]) + 1
    BY <1>2, <1>6 DEF TakeValue, HasValue
  <2>2. QED
    BY <1>6, <2>1 DEF TakeValue
<1>7. ASSUME NEW p \in Processes, Refuse(p) PROVE Shape'
  BY <1>7 DEF Refuse, own, Phases
<1>8. ASSUME NEW p \in Processes, Distribute(p) PROVE Shape'
  <2>1. DOMAIN words' = Processes /\ DOMAIN opts' = Processes
        /\ \A q \in Processes : DOMAIN opts'[q] = DOMAIN Defaults
    BY <1>8 DEF Distribute
  <2>2. DOMAIN phase' = Processes /\ \A q \in Processes : phase'[q] \in Phases
    BY <1>8 DEF Distribute, Phases
  <2>3. QED
    BY <1>8, <2>1, <2>2 DEF Distribute
<1>9. ASSUME NEW p \in Processes, ConfigRead(p) PROVE Shape'
  <2>1. UNCHANGED <<line, command, at, opts, words, edits, found>>
    BY <1>9, ReadingEnds
  <2>2. \/ phase' = [phase EXCEPT ![p] = "done"] /\ root' = root
           /\ \E n : code' = [code EXCEPT ![p] = n]
        \/ phase' = [phase EXCEPT ![p] = "write"] /\ code' = code
           /\ \E keys : root' = [root EXCEPT ![p] = keys]
    BY <1>9, ReadingEnds, Zenon
  <2>3. QED
    BY <2>1, <2>2 DEF Phases
<1>10. ASSUME NEW p \in Processes, ConfigWrite(p) PROVE Shape'
  BY <1>10 DEF ConfigWrite, own, Phases
<1>11. ASSUME UserEdits PROVE Shape'
  BY <1>11 DEF UserEdits, own
<1>12. ASSUME UNCHANGED vars PROVE Shape'
  BY <1>12 DEF vars
<1>13. QED
  BY <1>1, <1>3, <1>4, <1>5, <1>6, <1>7, <1>8, <1>9, <1>10, <1>11, <1>12 DEF Next, Parse


\* A process that is about to write has the keys of the file as it is, unless it is stale,
\* and the file is one it could read.
Fresh ==
  \A p \in Processes : phase[p] = "write" /\ p \notin stale =>
    root[p] = KeysOf(file) /\ ~ Rejects(file)

\* A process becomes stale, or is no longer about to write, when the file changes.
LEMMA StepFresh == Shape /\ Fresh /\ [Next]_vars => Fresh'
<1> SUFFICES ASSUME Shape, Fresh, [Next]_vars PROVE Fresh'
  OBVIOUS
<1>1. ASSUME NEW p \in Processes, Start(p) PROVE Fresh'
  <2>1. /\ file' = file /\ stale' = stale \ {p} /\ root' = [root EXCEPT ![p] = <<>>]
        /\ phase[p] # "write"
    BY <1>1 DEF Start
  <2>2. \E v \in {"done", "parse"} : phase' = [phase EXCEPT ![p] = v]
    BY <1>1 DEF Start
  <2>3. phase'[p] # "write" /\ \A q \in Processes : q # p => phase'[q] = phase[q] /\ root'[q] = root[q]
    BY <2>1, <2>2 DEF Shape
  <2>4. QED
    BY <2>1, <2>3 DEF Fresh
<1>2. ASSUME NEW p \in Processes, Parse(p) PROVE Fresh'
  <2>1. UNCHANGED <<file, stale, root>>
    BY <1>2 DEF Parse, TakeRest, TakeWord, TakeSwitch, TakeValue, Refuse, Distribute, own
  <2>2. phase' = phase \/ \E v \in {"done", "config", "run"} : phase' = [phase EXCEPT ![p] = v]
    BY <1>2 DEF Parse, TakeRest, TakeWord, TakeSwitch, TakeValue, Refuse, Distribute
  <2>3. \A q \in Processes : phase'[q] = "write" => phase[q] = "write"
    BY <2>2 DEF Shape
  <2>4. QED
    BY <2>1, <2>3 DEF Fresh
<1>3. ASSUME NEW p \in Processes, ConfigRead(p) PROVE Fresh'
  <2>1. phase[p] = "config" /\ file' = file
    BY <1>3, ReadingEnds
  <2>2. CASE phase' = [phase EXCEPT ![p] = "done"] /\ UNCHANGED <<root, stale>>
    BY <2>1, <2>2 DEF Fresh, Shape
  <2>3. CASE \E content \in Readings :
               /\ ~ Rejects(content)
               /\ phase' = [phase EXCEPT ![p] = "write"]
               /\ root' = [root EXCEPT ![p] = KeysOf(content)]
               /\ stale' = IF content = file THEN stale ELSE stale \cup {p}
    <3>1. PICK content \in Readings :
            /\ ~ Rejects(content)
            /\ phase' = [phase EXCEPT ![p] = "write"]
            /\ root' = [root EXCEPT ![p] = KeysOf(content)]
            /\ stale' = IF content = file THEN stale ELSE stale \cup {p}
      BY <2>3
    <3>2. p \notin stale' => content = file
      BY <3>1
    <3>3. root'[p] = KeysOf(content)
      BY <3>1 DEF Shape
    <3>4. ASSUME NEW q \in Processes, q # p, phase'[q] = "write", q \notin stale'
          PROVE  root'[q] = KeysOf(file) /\ ~ Rejects(file)
      <4>1. phase[q] = "write" /\ root'[q] = root[q] /\ q \notin stale
        BY <3>1, <3>4 DEF Shape
      <4>2. QED
        BY <4>1 DEF Fresh
    <3>5. ASSUME NEW q \in Processes, phase'[q] = "write", q \notin stale'
          PROVE  root'[q] = KeysOf(file) /\ ~ Rejects(file)
      BY <3>1, <3>2, <3>3, <3>4, <3>5
    <3>6. QED
      BY <2>1, <3>5 DEF Fresh
  <2>4. QED
    BY <1>3, <2>2, <2>3, ReadingEnds, Zenon
<1>4. ASSUME NEW p \in Processes, ConfigWrite(p) PROVE Fresh'
  <2>1. phase' = [phase EXCEPT ![p] = "done"] /\ root' = root
    BY <1>4 DEF ConfigWrite, own
  <2>2. CASE UNCHANGED <<file, stale>>
    BY <2>1, <2>2 DEF Fresh, Shape
  <2>3. CASE stale' = {q \in Processes : phase'[q] = "write"}
    BY <2>3 DEF Fresh
  <2>4. QED
    BY <1>4, <2>2, <2>3 DEF ConfigWrite
<1>5. ASSUME UserEdits PROVE Fresh'
  <2>1. stale' = {q \in Processes : phase'[q] = "write"}
    BY <1>5 DEF UserEdits
  <2>2. QED
    BY <2>1 DEF Fresh
<1>6. ASSUME UNCHANGED vars PROVE Fresh'
  BY <1>6 DEF vars, Fresh
<1>7. QED
  BY <1>1, <1>2, <1>3, <1>4, <1>5, <1>6 DEF Next

\* A write adds to what the file has, if the process has read it as it is.
LEMMA StepEdits == Shape /\ Fresh /\ EditsAddUp /\ [Next]_vars => EditsAddUp'
<1> SUFFICES ASSUME Shape, Fresh, EditsAddUp, [Next]_vars PROVE EditsAddUp'
  OBVIOUS
<1>1. ASSUME NEW p \in Processes, Start(p) \/ Parse(p) \/ ConfigRead(p) PROVE EditsAddUp'
  <2>1. UNCHANGED <<file, wanted, steady>>
    <3>1. CASE Start(p)
      BY <3>1 DEF Start
    <3>2. CASE Parse(p)
      BY <3>2 DEF Parse, TakeRest, TakeWord, TakeSwitch, TakeValue, Refuse, Distribute
    <3>3. CASE ConfigRead(p)
      BY <3>3, ReadingEnds
    <3>4. QED
      BY <1>1, <3>1, <3>2, <3>3
  <2>2. QED
    BY <2>1 DEF EditsAddUp
<1>2. ASSUME NEW p \in Processes, ConfigWrite(p) PROVE EditsAddUp'
  <2>1. CASE UNCHANGED <<file, wanted, stale, steady>>
    BY <2>1 DEF EditsAddUp
  <2>2. CASE /\ file' = Object(Edited(p)) /\ wanted' = WantedAfter(p)
             /\ steady' = (steady /\ p \notin stale)
    <3> SUFFICES ASSUME steady, p \notin stale
                 PROVE  file' = Object([k \in DOMAIN wanted' |-> Stored(wanted'[k])]) /\ file' # Absent
      BY <2>2 DEF EditsAddUp
    <3>1. phase[p] = "write" /\ root[p] = KeysOf(file)
      BY <1>2 DEF ConfigWrite, Fresh
    <3>2. root[p] = [k \in DOMAIN wanted |-> Stored(wanted[k])]
      <4>1. CASE file = Absent
        <5>1. root[p] = <<>> /\ wanted = <<>>
          BY <3>1, <4>1 DEF KeysOf, Absent, EditsAddUp
        <5>2. [k \in DOMAIN wanted |-> Stored(wanted[k])] = <<>>
          BY <5>1
        <5>3. QED
          BY <5>1, <5>2
      <4>2. CASE file = Object([k \in DOMAIN wanted |-> Stored(wanted[k])])
        BY <3>1, <4>2 DEF KeysOf, Object
      <4>3. QED
        BY <4>1, <4>2 DEF EditsAddUp
    <3>3. Edited(p) = [k \in DOMAIN wanted' |-> Stored(wanted'[k])]
      <4>1. CASE Action(p) = "set"
        <5>1. /\ Edited(p) = With(root[p], Key(p), Stored(words[p][3]))
              /\ wanted' = With(wanted, Key(p), words[p][3])
          BY <2>2, <4>1 DEF Edited, WantedAfter
        <5>2. QED
          BY <3>2, <5>1 DEF With
      <4>2. CASE Action(p) # "set"
        <5>1. Edited(p) = Without(root[p], Key(p)) /\ wanted' = Without(wanted, Key(p))
          BY <2>2, <4>2 DEF Edited, WantedAfter
        <5>2. QED
          BY <3>2, <5>1 DEF Without
      <4>3. QED
        BY <4>1, <4>2
    <3>4. QED
      BY <2>2, <3>3 DEF Object, Absent
  <2>3. QED
    BY <1>2, <2>1, <2>2 DEF ConfigWrite
<1>3. ASSUME UserEdits PROVE EditsAddUp'
  BY <1>3 DEF UserEdits, EditsAddUp
<1>4. ASSUME UNCHANGED vars PROVE EditsAddUp'
  BY <1>4 DEF vars, EditsAddUp
<1>5. QED
  BY <1>1, <1>2, <1>3, <1>4 DEF Next

\* A first run finds no file, and nothing has been set.
LEMMA InitEdits == Init => Shape /\ Fresh /\ EditsAddUp
<1> SUFFICES ASSUME Init PROVE Shape /\ Fresh /\ EditsAddUp
  OBVIOUS
<1>1. Shape
  <2>1. Len(<<>>) = 0 /\ 1 \in 1 .. 0 + 1
    OBVIOUS
  <2>2. QED
    BY <2>1 DEF Init, Shape, Phases, Lines
<1>2. Fresh
  BY DEF Init, Fresh
<1>3. EditsAddUp
  BY DEF Init, EditsAddUp
<1>4. QED
  BY <1>1, <1>2, <1>3

\* cmd_config() reads the whole file and writes it back: as long as each `config` reads what
\* the one before it wrote, the file holds all that was set and nothing else, for any keys and
\* words and any number of processes.
THEOREM NothingSetIsLost == Spec => []EditsAddUp
  BY InitEdits, StepShape, StepFresh, StepEdits, PTL DEF Spec

\* cmd_config() refuses a file that is not JSON: one that was broken by hand is only replaced
\* by a `config` that had read it before, or could not read it.
THEOREM BrokenFileStays == Spec => BrokenIsKept
<1>1. ASSUME Shape, Fresh, Next, file.kind = "broken", file' # file, edits' = edits
      PROVE  \E p \in stale : phase[p] = "write" /\ phase'[p] = "done"
  <2>1. ~ UserEdits
    BY <1>1 DEF UserEdits, Shape
  <2>2. PICK p \in Processes : ConfigWrite(p)
    <3>1. ASSUME NEW p \in Processes, Start(p) \/ Parse(p) \/ ConfigRead(p) PROVE file' = file
      <4>1. CASE Start(p)
        BY <4>1 DEF Start
      <4>2. CASE Parse(p)
        BY <4>2 DEF Parse, TakeRest, TakeWord, TakeSwitch, TakeValue, Refuse, Distribute
      <4>3. CASE ConfigRead(p)
        BY <4>3, ReadingEnds
      <4>4. QED
        BY <3>1, <4>1, <4>2, <4>3
    <3>2. QED
      BY <1>1, <2>1, <3>1 DEF Next
  <2>3. phase[p] = "write" /\ phase'[p] = "done"
    BY <1>1, <2>2 DEF ConfigWrite, Shape
  <2>4. Rejects(file)
    BY <1>1 DEF Rejects
  <2>5. p \in stale
    BY <1>1, <2>3, <2>4 DEF Fresh
  <2>6. QED
    BY <2>3, <2>5
<1>2. Shape /\ Fresh /\ [Next]_vars
        => [file.kind = "broken" /\ file' # file /\ edits' = edits
              => \E p \in stale : phase[p] = "write" /\ phase'[p] = "done"]_vars
  BY <1>1
<1>3. QED
  BY <1>2, InitEdits, StepShape, StepFresh, PTL DEF Spec, BrokenIsKept


-----------------------------------------------------------------------------
(* What `config set` stores, the loader reads back.                        *)

\* A multiple more makes no difference to a remainder.
LEMMA PortOfInt ==
  ASSUME NEW n \in Nat, ToInt(n) \in 1 .. PortSize - 1
  PROVE  ToPort(n) = ToInt(n)
<1> DEFINE h == IntSize \div 2
           r == ToInt(n)
           k == (n + h) \div IntSize
           m == IntSize \div PortSize
<1>1. IntSize \in Nat \ {0} /\ PortSize \in Nat \ {0} /\ h \in Nat /\ IntSize % PortSize = 0
  BY SettingsAssumption
<1>2. IntSize = PortSize * m /\ m \in Nat
  BY <1>1
<1>3. n + h = (IntSize * k) + ((n + h) % IntSize) /\ k \in Nat
  BY <1>1
<1>4. r = ((n + h) % IntSize) - h
  BY DEF ToInt
<1>5. r \in 1 .. PortSize - 1
  OBVIOUS
<1> HIDE DEF h, r, k, m
<1>6. n = (IntSize * k) + r
  BY <1>1, <1>3, <1>4, <1>5
<1>7. n = (PortSize * (m * k)) + r /\ m * k \in Nat
  BY <1>1, <1>2, <1>3, <1>6
<1>8. \A q \in Nat : ((PortSize * q) + r) % PortSize = r
  BY <1>1, <1>5
<1>9. n % PortSize = r
  BY <1>7, <1>8
<1>10. QED
  BY <1>9 DEF ToPort, r

\* Each kind of value is known by its first component.
LEMMA Kinds ==
  /\ \A b \in BOOLEAN : Boolean(b)[1] = "bool"
  /\ \A n : Number(n)[1] = "number" /\ Number(n)[2] = n
  /\ \A w : Text(w)[1] = "text"
<1>1. \A b \in BOOLEAN : Boolean(b)[1] = "bool"
  BY DEF Boolean
<1>2. \A n : Number(n)[1] = "number" /\ Number(n)[2] = n
  BY DEF Number
<1>3. \A w : Text(w)[1] = "text"
  BY DEF Text
<1>4. QED
  BY <1>1, <1>2, <1>3

\* The kinds of the options that the file may give.
LEMMA DefaultKinds ==
  /\ Defaults["recursive"][1] = "bool" /\ Defaults["same_origin"][1] = "bool"
  /\ Defaults["color"][1] = "bool" /\ Defaults["user_agent"][1] = "text"
  /\ Defaults["concurrency"][1] = "number" /\ Defaults["port"][1] = "number"
  /\ Defaults["max_files"][1] = "number"
<1>1. Defaults["recursive"][1] = "bool"
  <2>1. Defaults["recursive"] = <<"bool", 0, "">>
    BY DEF Defaults, Boolean
  <2>2. <<"bool", 0, "">>[1] = "bool"
    OBVIOUS
  <2>3. QED
    BY <2>1, <2>2, Zenon
<1>2. Defaults["same_origin"][1] = "bool"
  <2>1. Defaults["same_origin"] = <<"bool", 1, "">>
    BY DEF Defaults, Boolean
  <2>2. <<"bool", 1, "">>[1] = "bool"
    OBVIOUS
  <2>3. QED
    BY <2>1, <2>2, Zenon
<1>3. Defaults["color"][1] = "bool"
  <2>1. Defaults["color"] = <<"bool", 1, "">>
    BY DEF Defaults, Boolean
  <2>2. <<"bool", 1, "">>[1] = "bool"
    OBVIOUS
  <2>3. QED
    BY <2>1, <2>2, Zenon
<1>4. Defaults["user_agent"][1] = "text"
  <2>1. Defaults["user_agent"] = <<"text", 0, "surl">>
    BY DEF Defaults, Text
  <2>2. <<"text", 0, "surl">>[1] = "text"
    OBVIOUS
  <2>3. QED
    BY <2>1, <2>2, Zenon
<1>5. Defaults["concurrency"][1] = "number"
  <2>1. Defaults["concurrency"] = <<"number", 8, "">>
    BY DEF Defaults, Number
  <2>2. <<"number", 8, "">>[1] = "number"
    OBVIOUS
  <2>3. QED
    BY <2>1, <2>2, Zenon
<1>6. Defaults["port"][1] = "number"
  <2>1. Defaults["port"] = <<"number", 80, "">>
    BY DEF Defaults, Number
  <2>2. <<"number", 80, "">>[1] = "number"
    OBVIOUS
  <2>3. QED
    BY <2>1, <2>2, Zenon
<1>7. Defaults["max_files"][1] = "number"
  <2>1. Defaults["max_files"] = <<"number", 500, "">>
    BY DEF Defaults, Number
  <2>2. <<"number", 500, "">>[1] = "number"
    OBVIOUS
  <2>3. QED
    BY <2>1, <2>2, Zenon
<1>8. QED
  BY <1>1, <1>2, <1>3, <1>4, <1>5, <1>6, <1>7, Zenon

\* What a flag would make of a word, the loader makes of what was stored for it.
LEMMA ReadBack ==
  ASSUME NEW o \in Configurable, NEW word, Meaning(o, word) # Invalid
  PROVE  FileValue(o, Stored(word)) = Meaning(o, word)
<1>1. CASE o \in {"recursive", "same_origin", "color"}
  <2>1. Defaults[o][1] = "bool"
    BY <1>1, DefaultKinds
  <2>2. word \in {"true", "false"} /\ Meaning(o, word) = Boolean(word = "true")
    BY <1>1, <2>1 DEF Meaning
  <2>3. Stored(word) = Boolean(word = "true") /\ Stored(word)[1] = "bool"
    <3>1. CASE word = "true"
      <4>1. Stored(word) = Boolean(TRUE)
        BY <3>1, SettingsAssumption DEF Stored, Boolean
      <4>2. Boolean(word = "true") = Boolean(TRUE)
        BY <3>1 DEF Boolean
      <4>3. Boolean(TRUE)[1] = "bool"
        BY DEF Boolean
      <4>4. QED
        BY <4>1, <4>2, <4>3, Zenon
    <3>2. CASE word = "false"
      <4>1. Stored(word) = Boolean(FALSE)
        BY <3>2, SettingsAssumption DEF Stored, Boolean
      <4>2. Boolean(word = "true") = Boolean(FALSE)
        BY <3>2 DEF Boolean
      <4>3. Boolean(FALSE)[1] = "bool"
        BY DEF Boolean
      <4>4. QED
        BY <4>1, <4>2, <4>3, Zenon
    <3>3. QED
      BY <2>2, <3>1, <3>2
  <2>4. FileValue(o, Stored(word)) = Stored(word)
    BY <1>1, <2>1, <2>3 DEF FileValue
  <2>5. QED
    BY <2>2, <2>3, <2>4
<1>2. CASE o = "user_agent"
  <2>1. Defaults[o][1] = "text"
    BY <1>2, DefaultKinds
  <2>2. word \notin DOMAIN Numbers \cup {"true", "false"} /\ Meaning(o, word) = Text(word)
    BY <1>2, <2>1 DEF Meaning
  <2>3. Stored(word) = Text(word) /\ Stored(word)[1] = "text"
    <3>1. Stored(word) = Text(word)
      BY <2>2 DEF Stored
    <3>2. QED
      BY <3>1, Kinds
  <2>4. FileValue(o, Stored(word)) = Stored(word)
    BY <1>2, <2>1, <2>3 DEF FileValue
  <2>5. QED
    BY <2>2, <2>3, <2>4
<1>3. CASE o \in {"concurrency", "port", "max_files"}
  <2>1. Defaults[o][1] = "number"
    BY <1>3, DefaultKinds
  <2> DEFINE flag == CHOOSE f \in DOMAIN Valued : Valued[f] = o
  <2>2. word \in DOMAIN Numbers /\ Meaning(o, word) = FlagValue(flag, word)
    BY <2>1 DEF Meaning
  <2>3. Numbers[word] \in Nat /\ word \in DOMAIN Sizes /\ Sizes[word] = Numbers[word]
        /\ word \notin {"true", "false"}
    BY <2>2, SettingsAssumption
  <2>4. Stored(word) = Number(Numbers[word])
    BY <2>2, <2>3 DEF Stored
  <2>5. Stored(word)[1] = "number" /\ Stored(word)[2] = Numbers[word]
    BY <2>4, Kinds
  <2>6. \E f \in DOMAIN Valued : Valued[f] = o
    BY <1>3, ValuedDomain DEF Valued
  <2>7. flag \in DOMAIN Valued /\ Valued[flag] = o
    BY <2>6
  <2> HIDE DEF flag
  <2>8. CASE o = "concurrency"
    <3>1. flag = "--concurrency"
      BY <2>7, <2>8, ValuedDomain DEF Valued
    <3>2. FlagValue(flag, word) = Number(ToInt(Numbers[word]))
      BY <2>2, <3>1 DEF FlagValue
    <3>3. FileValue(o, Stored(word)) = Number(ToInt(Numbers[word]))
      BY <2>1, <2>5, <2>8 DEF FileValue
    <3>4. QED
      BY <2>2, <3>2, <3>3
  <2>9. CASE o = "port"
    <3>1. flag = "--port"
      BY <2>7, <2>9, ValuedDomain DEF Valued
    <3>2. FlagValue(flag, word) = Number(ToInt(Numbers[word]))
          /\ ToInt(Numbers[word]) \in 1 .. PortSize - 1
      BY <2>2, <3>1 DEF FlagValue
    <3>3. FileValue(o, Stored(word)) = Number(ToPort(Numbers[word]))
      BY <2>1, <2>5, <2>9 DEF FileValue
    <3>4. QED
      BY <2>2, <2>3, <3>2, <3>3, PortOfInt
  <2>10. CASE o = "max_files"
    <3>1. flag = "--max-files"
      BY <2>7, <2>10, ValuedDomain DEF Valued
    <3>2. FlagValue(flag, word) = Number(Sizes[word])
      BY <2>2, <3>1 DEF FlagValue
    <3>3. FileValue(o, Stored(word)) = Stored(word)
      BY <2>1, <2>5, <2>10 DEF FileValue
    <3>4. QED
      BY <2>2, <2>3, <2>4, <3>2, <3>3
  <2>11. QED
    BY <1>3, <2>8, <2>9, <2>10
<1>4. QED
  BY <1>1, <1>2, <1>3 DEF Configurable

-----------------------------------------------------------------------------
(* Reading the command line.                                               *)

\* No argument so far is a value or behind "--" where the next one is looked at.
Reached(args, n) == n <= Len(args) => n \notin Values(args) \cup Behind(args)

\* The first argument is looked at as it is.
LEMMA ReachedFirst == \A args \in Lines : Reached(args, 1)
  BY LineTypes, ValuesFollow DEF Reached, Behind

\* Behind an argument that is no "--" comes the next one that is not its value.
LEMMA ReachedNext ==
  ASSUME NEW args \in Lines, NEW j \in 1 .. Len(args), Reached(args, j), args[j] # <<"--">>
  PROVE  /\ ~ Takes(args, j) => Reached(args, j + 1)
         /\ Takes(args, j) => Reached(args, j + 2)
         /\ Takes(args, j) /\ j + 1 <= Len(args) => j + 1 \in Values(args)
<1>1. args \in Seq(Seq(STRING)) /\ Len(args) \in Nat /\ DOMAIN args = 1 .. Len(args)
  BY LineTypes
<1>2. j \notin Values(args) /\ \A k \in 1 .. j - 1 : args[k] = <<"--">> => k \in Values(args)
  <2>1. j \in DOMAIN args /\ j \notin Values(args) /\ j \notin Behind(args)
    BY <1>1 DEF Reached
  <2>2. QED
    BY <2>1 DEF Behind
<1>3. \A k \in 1 .. j : args[k] = <<"--">> => k \in Values(args)
  <2>1. \A k \in 1 .. j : k \in 1 .. j - 1 \/ k = j
    OBVIOUS
  <2>2. QED
    BY <1>2, <2>1
<1>4. ASSUME j + 1 <= Len(args) PROVE j + 1 \in Values(args) <=> Takes(args, j)
  <2>1. j \in 1 .. Len(args) - 1
    BY <1>1, <1>4
  <2>2. QED
    BY <1>1, <1>2, <2>1, ValuesFollow
<1>5. ASSUME ~ Takes(args, j), j + 1 <= Len(args)
      PROVE  j + 1 \notin Values(args) \cup Behind(args)
  <2>1. (j + 1) - 1 = j
    OBVIOUS
  <2>2. j + 1 \notin Behind(args)
    BY <1>3, <2>1 DEF Behind
  <2>3. QED
    BY <1>4, <1>5, <2>2
<1>6. ASSUME Takes(args, j), j + 2 <= Len(args)
      PROVE  j + 2 \notin Values(args) \cup Behind(args)
  <2>1. j + 1 \in 1 .. Len(args) - 1 /\ (j + 1) + 1 = j + 2 /\ j + 1 <= Len(args)
    BY <1>1, <1>6
  <2>2. j + 1 \in Values(args)
    BY <1>4, <1>6, <2>1
  <2>3. j + 2 \notin Values(args)
    BY <1>1, <2>1, <2>2, ValuesFollow
  <2>4. \A k \in 1 .. (j + 2) - 1 : k \in 1 .. j \/ k = j + 1
    OBVIOUS
  <2>5. j + 2 \notin Behind(args)
    BY <1>3, <2>2, <2>4 DEF Behind
  <2>6. QED
    BY <2>3, <2>5
<1>7. QED
  BY <1>4, <1>5, <1>6 DEF Reached

\* An argument that is looked at counts just as the flag it is.
LEMMA GivenHere ==
  ASSUME NEW args \in Lines, NEW j \in 1 .. Len(args), Reached(args, j), NEW o
  PROVE  j \in Given(args, o) <=>
           \/ args[j][1] \in DOMAIN Valued /\ Valued[args[j][1]] = o
           \/ args[j][1] \in DOMAIN Switches /\ o \in DOMAIN Switches[args[j][1]]
<1>1. Len(args) \in Nat /\ DOMAIN args = 1 .. Len(args)
  BY LineTypes
<1>2. j \in DOMAIN args \ (Values(args) \cup Behind(args))
  BY <1>1 DEF Reached
<1>3. QED
  BY <1>2 DEF Given

-----------------------------------------------------------------------------
(* What has been given so far.                                             *)

\* What an option is when no flag has been given for it: what the file says, or the default.
Unflagged(o, v, args, name, was) ==
  /\ o \notin Configurable /\ args # <<>> => v = Defaults[o]
  /\ /\ o \in Configurable \cap DOMAIN was /\ Meaning(o, was[o]) # Invalid
     /\ name = "mirror" => o \notin DOMAIN MirrorDefaults
     => v = Meaning(o, was[o])

\* Of the arguments in front of place n, the last one for an option has decided it.
Decides(args, n, o, v, name, was) ==
  LET given == {i \in Given(args, o) : i < n}
  IN IF given # {} THEN \E j \in given : (\A i \in given : i <= j) /\ v = Says(args, j, o)
     ELSE Unflagged(o, v, args, name, was)

\* What lies between two places decides nothing if no flag for the option stands there.
LEMMA NothingGiven ==
  ASSUME NEW args, NEW n, NEW m, NEW o, NEW v, NEW name, NEW was,
         \A i \in Given(args, o) : i < n <=> i < m,
         Decides(args, n, o, v, name, was)
  PROVE  Decides(args, m, o, v, name, was)
<1>1. {i \in Given(args, o) : i < n} = {i \in Given(args, o) : i < m}
  OBVIOUS
<1>2. QED
  BY <1>1, Zenon DEF Decides

\* The last flag for an option decides it.
LEMMA OneGiven ==
  ASSUME NEW args, NEW j \in Nat, NEW n, NEW o, NEW v, NEW name, NEW was,
         j \in Given(args, o), j < n, \A i \in Given(args, o) : i < n => i <= j,
         v = Says(args, j, o)
  PROVE  Decides(args, n, o, v, name, was)
<1> DEFINE given == {i \in Given(args, o) : i < n}
<1>1. j \in given /\ \A i \in given : i <= j
  OBVIOUS
<1>2. QED
  BY <1>1, Zenon DEF Decides


-----------------------------------------------------------------------------
(* The options of a process.                                               *)

\* What has been read of a command line: up to the next argument, each option is what the
\* last flag for it says, and behind the last argument the same is true of the whole line.
Reading(p) ==
  /\ phase[p] = "parse" => Reached(line[p], at[p])
  /\ phase[p] = "parse" /\ line[p] = <<>> => opts[p]["show_help"] = Boolean(TRUE)
  /\ phase[p] \in {"run", "config"} => line[p] # <<>> /\ at[p] = Len(line[p]) + 1
  /\ phase[p] \in {"parse", "run", "config"} =>
       \A o \in DOMAIN Defaults \ {"directory"} :
         Decides(line[p], at[p], o, opts[p][o], command[p], found[p])

Read == \A p \in Processes : Reading(p)

\* What concerns one process only leaves the others what they have read.
LEMMA OthersRead ==
  ASSUME NEW p \in Processes, Read, Reading(p)',
         \A q \in Processes : q # p =>
           UNCHANGED <<phase[q], line[q], at[q], opts[q], command[q], found[q]>>
  PROVE  Read'
<1>1. ASSUME NEW q \in Processes, q # p PROVE Reading(q)'
  <2>1. UNCHANGED <<phase[q], line[q], at[q], opts[q], command[q], found[q]>>
    BY <1>1
  <2>2. Reading(q)
    BY DEF Read
  <2>3. QED
    BY <2>1, <2>2 DEF Reading
<1>2. QED
  BY <1>1 DEF Read

\* The first argument is no flag if it is a command, and nothing has been given yet.
LEMMA StartReads ==
  ASSUME NEW args \in CommandLines,
         Named(args) => \E name \in Commands : args[1] = <<name>>
  PROVE  LET n == IF Named(args) THEN 2 ELSE 1
         IN /\ Reached(args, n)
            /\ \A o : {i \in Given(args, o) : i < n} = {}
<1>1. args \in Lines
  BY DEF Lines
<1>2. \A o : Given(args, o) \subseteq 1 .. Len(args)
  BY <1>1, LineTypes DEF Given
<1>3. CASE ~ Named(args)
  BY <1>1, <1>2, <1>3, ReachedFirst
<1>4. CASE Named(args)
  <2>1. args # <<>> /\ args[1][1] \notin Dashed
    BY <1>4 DEF Named
  <2>2. 1 \in 1 .. Len(args)
    BY <1>1, <2>1, LineTypes, EmptySeq
  <2>3. args[1] # <<"--">> /\ args[1][1] \notin DOMAIN Switches /\ args[1][1] \notin DOMAIN Valued
    <3>1. <<"--">>[1] = "--"
      OBVIOUS
    <3>2. QED
      BY <2>1, <3>1, FlagsAreDashed
  <2>4. Reached(args, 1) /\ ~ Takes(args, 1)
    BY <1>1, <2>3, ReachedFirst DEF Takes
  <2>5. Reached(args, 1 + 1)
    BY <1>1, <2>2, <2>3, <2>4, ReachedNext
  <2>6. \A o : 1 \notin Given(args, o)
    BY <1>1, <2>2, <2>3, <2>4, GivenHere, Zenon
  <2>7. \A o : {i \in Given(args, o) : i < 2} = {}
    BY <1>1, <1>2, <2>6, LineTypes
  <2>8. QED
    BY <1>4, <2>5, <2>7
<1>5. QED
  BY <1>3, <1>4

\* Behind the file and what a command presets, an option is what the file says of it,
\* read as a flag would read it, or its default.
LEMMA StartSets ==
  ASSUME EditsAddUp, NEW args, NEW name, NEW content \in Readings,
         NEW o \in DOMAIN Defaults \ {"directory"}
  PROVE  LET preset == CASE args = <<>>     -> [show_help |-> Boolean(TRUE)]
                         [] name = "mirror" -> MirrorDefaults
                         [] OTHER           -> <<>>
             was == IF steady /\ content = file THEN wanted ELSE <<>>
             shown == IF args = <<>> THEN "help" ELSE name
         IN name # "mirror" \/ args # <<>>
              => Unflagged(o, Override(FromFile(content), preset)[o], args, shown, was)
<1> DEFINE preset == CASE args = <<>>     -> [show_help |-> Boolean(TRUE)]
                       [] name = "mirror" -> MirrorDefaults
                       [] OTHER           -> <<>>
           was == IF steady /\ content = file THEN wanted ELSE <<>>
           shown == IF args = <<>> THEN "help" ELSE name
           v == Override(FromFile(content), preset)[o]
<1> SUFFICES ASSUME name # "mirror" \/ args # <<>> PROVE Unflagged(o, v, args, shown, was)
  OBVIOUS
<1>1. /\ args = <<>> => DOMAIN preset = {"show_help"}
      /\ args # <<>> /\ name = "mirror" => DOMAIN preset = DOMAIN MirrorDefaults
      /\ args # <<>> /\ name # "mirror" => DOMAIN preset = {}
  BY DEF MirrorDefaults
<1>2. DOMAIN MirrorDefaults = {"recursive", "same_origin"}
  BY DEF MirrorDefaults
<1> HIDE DEF preset
<1>3. o \notin DOMAIN preset => v = FromFile(content)[o]
  BY DEF Override, FromFile
<1> HIDE DEF v
<1>4. ASSUME o \notin Configurable, args # <<>> PROVE v = Defaults[o]
  <2>1. o \notin DOMAIN preset
    BY <1>1, <1>2, <1>4 DEF Configurable
  <2>2. FromFile(content)[o] = Defaults[o]
    BY <1>4 DEF FromFile
  <2>3. QED
    BY <1>3, <2>1, <2>2
<1>5. ASSUME o \in Configurable \cap DOMAIN was, Meaning(o, was[o]) # Invalid,
             shown = "mirror" => o \notin DOMAIN MirrorDefaults
      PROVE  v = Meaning(o, was[o])
  <2>1. steady /\ content = file /\ was = wanted
    BY <1>5
  <2>2. o \in DOMAIN wanted
    BY <1>5, <2>1
  <2>3. file = Object([k \in DOMAIN wanted |-> Stored(wanted[k])])
    BY <2>1, <2>2 DEF EditsAddUp
  <2>4. content.kind = "object" /\ content.keys = [k \in DOMAIN wanted |-> Stored(wanted[k])]
    BY <2>1, <2>3 DEF Object
  <2>5. FromFile(content)[o] = FileValue(o, Stored(wanted[o]))
    BY <1>5, <2>2, <2>4 DEF FromFile
  <2>6. Meaning(o, wanted[o]) # Invalid /\ o \in Configurable
    BY <1>5, <2>1
  <2>7. FileValue(o, Stored(wanted[o])) = Meaning(o, wanted[o])
    BY <2>6, ReadBack
  <2>8. o \notin DOMAIN preset
    BY <1>1, <1>5 DEF Configurable
  <2>9. QED
    BY <1>3, <2>1, <2>5, <2>7, <2>8
<1>6. QED
  BY <1>4, <1>5, Zenon DEF Unflagged

\* main() up to the first argument: nothing has been given, and all options are preset.
LEMMA StepReadStart ==
  ASSUME Shape, EditsAddUp, Read, NEW p \in Processes, Start(p)
  PROVE  Read'
<1>1. PICK args \in CommandLines, content \in Readings :
        LET name == IF args # <<>> /\ Named(args) THEN args[1][1] ELSE "clone"
            known == Named(args) => args[1] = <<name>> /\ name \in Commands
        IN /\ line' = [line EXCEPT ![p] = args]
           /\ command' = [command EXCEPT ![p] = IF args = <<>> THEN "help" ELSE name]
           /\ opts' = [opts EXCEPT ![p] = Override(FromFile(content),
                         CASE args = <<>>     -> [show_help |-> Boolean(TRUE)]
                           [] name = "mirror" -> MirrorDefaults
                           [] OTHER           -> <<>>)]
           /\ at' = [at EXCEPT ![p] = IF Named(args) THEN 2 ELSE 1]
           /\ phase' = [phase EXCEPT ![p] = IF ~known THEN "done" ELSE "parse"]
           /\ found' = [found EXCEPT ![p] = IF steady /\ content = file THEN wanted ELSE <<>>]
  BY Zenon DEF Start
<1> DEFINE name == IF args # <<>> /\ Named(args) THEN args[1][1] ELSE "clone"
           known == Named(args) => args[1] = <<name>> /\ name \in Commands
           preset == CASE args = <<>>     -> [show_help |-> Boolean(TRUE)]
                       [] name = "mirror" -> MirrorDefaults
                       [] OTHER           -> <<>>
           was == IF steady /\ content = file THEN wanted ELSE <<>>
           shown == IF args = <<>> THEN "help" ELSE name
           n == IF Named(args) THEN 2 ELSE 1
<1>2. /\ line'[p] = args /\ command'[p] = shown /\ at'[p] = n /\ found'[p] = was
      /\ opts'[p] = Override(FromFile(content), preset)
      /\ phase'[p] = IF ~known THEN "done" ELSE "parse"
  BY <1>1, Zenon DEF Shape
<1>3. \A q \in Processes : q # p =>
        UNCHANGED <<phase[q], line[q], at[q], opts[q], command[q], found[q]>>
  BY <1>1 DEF Shape
<1>4. name # "mirror" \/ args # <<>>
  OBVIOUS
<1>5. known => (Named(args) => \E c \in Commands : args[1] = <<c>>)
  BY Zenon
<1>6. \A o \in DOMAIN Defaults \ {"directory"} :
        Unflagged(o, Override(FromFile(content), preset)[o], args, shown, was)
  BY <1>4, StartSets, Zenon
<1>7. args = <<>> => Override(FromFile(content), preset)["show_help"] = Boolean(TRUE)
  <2> SUFFICES ASSUME args = <<>>
               PROVE  Override(FromFile(content), preset)["show_help"] = Boolean(TRUE)
    OBVIOUS
  <2>1. "show_help" \in DOMAIN FromFile(content)
    BY DefaultsDomain DEF FromFile
  <2>2. preset = [show_help |-> Boolean(TRUE)]
    BY Zenon
  <2> HIDE DEF preset
  <2>3. "show_help" \in DOMAIN preset /\ preset["show_help"] = Boolean(TRUE)
    BY <2>2 DEF Boolean
  <2>4. Override(FromFile(content), preset)["show_help"] = preset["show_help"]
    BY <2>1, <2>3 DEF Override
  <2>5. QED
    BY <2>3, <2>4, Zenon
<1> HIDE DEF preset, was, shown
<1>8. Reading(p)'
  <2>1. CASE ~ known
    BY <1>2, <2>1 DEF Reading
  <2>2. CASE known
    <3>1. phase'[p] = "parse"
      BY <1>2, <2>2, Zenon
    <3>2. Reached(args, n) /\ \A o : {i \in Given(args, o) : i < n} = {}
      BY <1>5, <2>2, StartReads, Zenon
    <3> HIDE DEF n, known, name
    <3>3. \A o \in DOMAIN Defaults \ {"directory"} :
            Decides(args, n, o, Override(FromFile(content), preset)[o], shown, was)
      BY <1>6, <3>2, Zenon DEF Decides
    <3>4. QED
      BY <1>2, <1>7, <3>1, <3>2, <3>3 DEF Reading
  <2>3. QED
    BY <2>1, <2>2, Zenon
<1>9. QED
  BY <1>3, <1>8, OthersRead


\* An argument that is a switch, or a flag for another option, leaves an option as it is.
LEMMA PassOver ==
  ASSUME NEW args, NEW j \in Nat, NEW o, NEW v, NEW name, NEW was,
         Given(args, o) \subseteq Nat, j \notin Given(args, o),
         Decides(args, j, o, v, name, was)
  PROVE  Decides(args, j + 1, o, v, name, was)
<1>1. \A i \in Given(args, o) : i < j <=> i < j + 1
  OBVIOUS
<1>2. QED
  BY <1>1, NothingGiven

\* Each argument that is taken decides the options it is a flag for, and no other.
LEMMA StepReadParse ==
  ASSUME Shape, Read, NEW p \in Processes, Parsing(p),
         TakeRest(p) \/ TakeWord(p) \/ TakeSwitch(p) \/ TakeValue(p)
  PROVE  Read'
<1> DEFINE args == line[p]
           j == at[p]
           flag == args[j][1]
<1>1. /\ args \in Lines /\ j \in 1 .. Len(args) /\ Len(args) \in Nat /\ args # <<>>
      /\ phase[p] = "parse" /\ Here(p) = args[j]
  <2>1. args \in Lines /\ j \in 1 .. Len(args) + 1 /\ j <= Len(args) /\ phase[p] = "parse"
    BY DEF Shape, Parsing
  <2>2. Len(args) \in Nat /\ Len(<<>>) = 0
    BY <2>1, LineTypes
  <2>3. QED
    BY <2>1, <2>2 DEF Here
<1>2. /\ Reached(args, j)
      /\ \A o \in DOMAIN Defaults \ {"directory"} :
           Decides(args, j, o, opts[p][o], command[p], found[p])
  BY <1>1, Zenon DEF Read, Reading
<1>3. \A o : Given(args, o) \subseteq 1 .. Len(args)
  BY <1>1, LineTypes DEF Given
<1>4. \A o : j \in Given(args, o) <=>
               \/ flag \in DOMAIN Valued /\ Valued[flag] = o
               \/ flag \in DOMAIN Switches /\ o \in DOMAIN Switches[flag]
  BY <1>1, <1>2, GivenHere
<1>5. UNCHANGED <<phase, line, command, found>>
  BY DEF TakeRest, TakeWord, TakeSwitch, TakeValue
<1>6. ASSUME NEW n, at'[p] = n, Reached(args, n),
             \A o \in DOMAIN Defaults \ {"directory"} :
               Decides(args, n, o, opts'[p][o], command[p], found[p]),
             \A q \in Processes : q # p => at'[q] = at[q] /\ opts'[q] = opts[q]
      PROVE  Read'
  <2>1. Reading(p)'
    BY <1>1, <1>5, <1>6 DEF Reading
  <2>2. \A q \in Processes : q # p =>
          UNCHANGED <<phase[q], line[q], at[q], opts[q], command[q], found[q]>>
    BY <1>5, <1>6
  <2>3. QED
    BY <2>1, <2>2, OthersRead
<1> HIDE DEF args, j, flag
<1>7. CASE TakeRest(p)
  <2>1. at'[p] = Len(args) + 1 /\ opts' = opts /\ args[j] = <<"--">>
        /\ \A q \in Processes : q # p => at'[q] = at[q]
    BY <1>1, <1>7 DEF TakeRest, Shape, args
  <2>2. flag = "--"
    <3>1. <<"--">>[1] = "--"
      OBVIOUS
    <3>2. QED
      BY <2>1, <3>1 DEF flag
  <2>3. \A o : j \notin Given(args, o)
    BY <1>4, <2>2, FlagsDiffer
  <2>4. j \notin Values(args)
    BY <1>1, <1>2 DEF Reached
  <2>5. ASSUME NEW o, NEW i \in Given(args, o) PROVE i < j
    <3>1. i \in 1 .. Len(args) /\ i # j /\ i \notin Behind(args)
      BY <1>3, <2>3, <2>5 DEF Given
    <3>2. ~ (j \in 1 .. i - 1)
      <4>1. SUFFICES ASSUME j \in 1 .. i - 1 PROVE FALSE
        OBVIOUS
      <4>2. i \in DOMAIN args
        BY <1>1, <3>1, LineTypes
      <4>3. i \in Behind(args)
        BY <2>1, <2>4, <4>1, <4>2 DEF Behind
      <4>4. QED
        BY <3>1, <4>3
    <3>3. QED
      BY <1>1, <3>1, <3>2
  <2>6. \A o : \A i \in Given(args, o) : i < j <=> i < Len(args) + 1
    BY <1>1, <1>3, <2>5
  <2>7. \A o \in DOMAIN Defaults \ {"directory"} :
          Decides(args, Len(args) + 1, o, opts'[p][o], command[p], found[p])
    BY <1>2, <2>1, <2>6, NothingGiven
  <2>8. Reached(args, Len(args) + 1)
    BY <1>1 DEF Reached
  <2>9. QED
    BY <1>6, <2>1, <2>7, <2>8
<1>8. CASE TakeWord(p)
  <2>1. at'[p] = j + 1 /\ opts' = opts /\ flag \notin Dashed
        /\ \A q \in Processes : q # p => at'[q] = at[q]
    BY <1>1, <1>8 DEF TakeWord, Shape, flag, j
  <2>2. args[j] # <<"--">> /\ flag \notin DOMAIN Valued /\ flag \notin DOMAIN Switches
    <3>1. <<"--">>[1] = "--"
      OBVIOUS
    <3>2. QED
      BY <2>1, <3>1, FlagsAreDashed DEF flag
  <2>3. Reached(args, j + 1)
    BY <1>1, <1>2, <2>2, ReachedNext DEF Takes, flag
  <2>4. \A o : j \notin Given(args, o)
    BY <1>4, <2>2
  <2>5. \A o \in DOMAIN Defaults \ {"directory"} :
          Decides(args, j + 1, o, opts'[p][o], command[p], found[p])
    <3>1. \A o : Given(args, o) \subseteq Nat
      BY <1>3
    <3>2. QED
      BY <1>1, <1>2, <2>1, <2>4, <3>1, PassOver
  <2>6. QED
    BY <1>6, <2>1, <2>3, <2>5
<1>9. CASE TakeSwitch(p)
  <2>1. /\ at'[p] = j + 1 /\ opts'[p] = Override(opts[p], Switches[flag])
        /\ args[j] # <<"--">> /\ flag \in DOMAIN Switches
        /\ \A q \in Processes : q # p => at'[q] = at[q] /\ opts'[q] = opts[q]
    BY <1>1, <1>9 DEF TakeSwitch, Shape, flag, j
  <2>2. flag \notin DOMAIN Valued
    BY <2>1, FlagsDiffer
  <2>3. Reached(args, j + 1)
    BY <1>1, <1>2, <2>1, <2>2, ReachedNext DEF Takes, flag
  <2>4. ASSUME NEW o \in DOMAIN Defaults \ {"directory"}
        PROVE  Decides(args, j + 1, o, opts'[p][o], command[p], found[p])
    <3>1. Given(args, o) \subseteq Nat
      BY <1>3
    <3>2. o \in DOMAIN opts[p]
      BY DEF Shape
    <3>3. CASE o \in DOMAIN Switches[flag]
      <4>1. opts'[p][o] = Switches[flag][o]
        BY <2>1, <3>2, <3>3 DEF Override
      <4>2. opts'[p][o] = Says(args, j, o)
        BY <2>1, <4>1, Zenon DEF Says, flag
      <4>3. j \in Given(args, o)
        BY <1>4, <2>1, <3>3
      <4>4. j \in Nat /\ j < j + 1 /\ \A i \in Given(args, o) : i < j + 1 => i <= j
        BY <1>1, <3>1
      <4>5. QED
        BY <4>2, <4>3, <4>4, OneGiven
    <3>4. CASE o \notin DOMAIN Switches[flag]
      <4>1. opts'[p][o] = opts[p][o]
        BY <2>1, <3>2, <3>4 DEF Override
      <4>2. j \notin Given(args, o) /\ j \in Nat
        BY <1>1, <1>4, <2>2, <3>4
      <4>3. QED
        BY <1>2, <3>1, <4>1, <4>2, PassOver
    <3>5. QED
      BY <3>3, <3>4
  <2>5. QED
    BY <1>6, <2>1, <2>3, <2>4
<1>10. CASE TakeValue(p)
  <2> DEFINE set == Valued[flag]
             n == j + (IF Len(args[j]) = 2 THEN 1 ELSE 2)
             value == FlagValue(flag, ValueHere(p))
  <2>1. /\ at'[p] = n /\ flag \in DOMAIN Valued
        /\ opts' = [opts EXCEPT ![p][set] = value]
        /\ \A q \in Processes : q # p => at'[q] = at[q]
    BY <1>1, <1>10 DEF TakeValue, Shape, flag, j
  <2>2. /\ opts'[p] = [opts[p] EXCEPT ![set] = value]
        /\ \A q \in Processes : q # p => opts'[q] = opts[q]
    BY <2>1 DEF Shape
  <2>3. flag \notin DOMAIN Switches /\ args[j] # <<"--">>
    <3>1. <<"--">>[1] = "--"
      OBVIOUS
    <3>2. QED
      BY <2>1, <3>1, FlagsDiffer DEF flag
  <2>4. Len(args[j]) \in {1, 2}
    BY <1>1, LineTypes
  <2>5. /\ n = IF Takes(args, j) THEN j + 2 ELSE j + 1
        /\ Takes(args, j) <=> Len(args[j]) # 2
    BY <2>1, <2>4 DEF Takes, flag
  <2>6. Reached(args, n) /\ (Takes(args, j) /\ j + 1 <= Len(args) => j + 1 \in Values(args))
    BY <1>1, <1>2, <2>3, <2>5, ReachedNext
  <2>7. value = Says(args, j, set)
    <3>1. ValueHere(p) = IF Len(args[j]) = 2 THEN args[j][2] ELSE Whole(args[j + 1])
      BY <1>1, Zenon DEF ValueHere, args, j
    <3>2. QED
      BY <2>3, <3>1, Zenon DEF Says, flag
  <2>8. \A o : \A i \in Given(args, o) : i \in Nat /\ (i < n => i <= j)
    <3>1. ASSUME NEW o, NEW i \in Given(args, o), i < n PROVE i <= j
      <4>1. i \in 1 .. Len(args) /\ i \notin Values(args)
        BY <1>3, <3>1 DEF Given
      <4>2. ~ Takes(args, j) \/ i # j + 1
        BY <2>6, <4>1
      <4>3. QED
        BY <1>1, <2>5, <3>1, <4>1, <4>2
    <3>2. QED
      BY <1>3, <3>1
  <2>9. j \in Nat /\ n \in Nat /\ j < n
    BY <1>1, <2>5
  <2> HIDE DEF set, n, value
  <2>10. ASSUME NEW o \in DOMAIN Defaults \ {"directory"}
         PROVE  Decides(args, n, o, opts'[p][o], command[p], found[p])
    <3>1. o \in DOMAIN opts[p]
      BY DEF Shape
    <3>2. CASE o = set
      <4>1. opts'[p][o] = Says(args, j, o)
        BY <2>2, <2>7, <3>1, <3>2
      <4>2. j \in Given(args, o)
        BY <1>4, <2>1, <3>2 DEF set
      <4>3. QED
        BY <2>8, <2>9, <4>1, <4>2, OneGiven
    <3>3. CASE o # set
      <4>1. opts'[p][o] = opts[p][o]
        BY <2>2, <3>1, <3>3
      <4>2. j \notin Given(args, o)
        BY <1>4, <2>3, <3>3 DEF set
      <4>3. \A i \in Given(args, o) : i < j <=> i < n
        BY <2>8, <2>9, <4>2
      <4>4. QED
        BY <1>2, <4>1, <4>3, NothingGiven
    <3>4. QED
      BY <3>2, <3>3
  <2>11. QED
    BY <1>6, <2>1, <2>2, <2>6, <2>10
<1>11. QED
  BY <1>7, <1>8, <1>9, <1>10

\* No step of another process, of the user, or of cmd_config() touches what has been read.
LEMMA StepRead == Shape /\ EditsAddUp /\ Read /\ [Next]_vars => Read'
<1> SUFFICES ASSUME Shape, EditsAddUp, Read, [Next]_vars PROVE Read'
  OBVIOUS
<1>1. ASSUME NEW p \in Processes, phase'[p] \in {"done", "write"},
             \A q \in Processes : q # p => phase'[q] = phase[q],
             UNCHANGED <<line, at, opts, command, found>>
      PROVE  Read'
  <2>1. Reading(p)'
    BY <1>1 DEF Reading
  <2>2. QED
    BY <1>1, <2>1, OthersRead
<1>2. ASSUME UNCHANGED <<phase, line, at, opts, command, found>> PROVE Read'
  BY <1>2 DEF Read, Reading
<1>3. ASSUME NEW p \in Processes, Parse(p) PROVE Read'
  <2>1. CASE TakeRest(p) \/ TakeWord(p) \/ TakeSwitch(p) \/ TakeValue(p)
    <3>1. Parsing(p)
      BY <2>1 DEF TakeRest, TakeWord, TakeSwitch, TakeValue
    <3>2. QED
      BY <2>1, <3>1, StepReadParse
  <2>2. CASE Refuse(p)
    BY <1>1, <2>2 DEF Refuse, own, Shape
  <2>3. CASE Distribute(p)
    <3>1. /\ phase[p] = "parse" /\ at[p] = Len(line[p]) + 1
          /\ UNCHANGED <<line, at, command, found>>
      <4>1. phase[p] = "parse" /\ at[p] > Len(line[p]) /\ UNCHANGED <<line, at, command, found>>
        BY <2>3 DEF Distribute
      <4>2. at[p] \in 1 .. Len(line[p]) + 1 /\ Len(line[p]) \in Nat
        BY LineTypes DEF Shape
      <4>3. QED
        BY <4>1, <4>2
    <3>2. \A q \in Processes : q # p => phase'[q] = phase[q] /\ opts'[q] = opts[q]
      BY <2>3 DEF Distribute, Shape
    <3>3. \A o \in DOMAIN Defaults \ {"directory"} : opts'[p][o] = opts[p][o]
      BY <2>3 DEF Distribute, Shape
    <3>4. /\ phase'[p] \in {"done", "config", "run"}
          /\ opts[p]["show_help"] = Boolean(TRUE) => phase'[p] = "done"
      <4>1. phase'[p] = IF opts[p]["show_help"] = Boolean(TRUE) THEN "done"
                        ELSE IF command[p] = "config" THEN "config" ELSE "run"
        BY <2>3, Zenon DEF Distribute, Shape
      <4>2. QED
        BY <4>1
    <3>5. /\ line[p] = <<>> => opts[p]["show_help"] = Boolean(TRUE)
          /\ \A o \in DOMAIN Defaults \ {"directory"} :
               Decides(line[p], at[p], o, opts[p][o], command[p], found[p])
      BY <3>1, Zenon DEF Read, Reading
    <3>6. Reading(p)'
      BY <3>1, <3>3, <3>4, <3>5 DEF Reading
    <3>7. QED
      BY <3>1, <3>2, <3>6, OthersRead
  <2>4. QED
    BY <1>3, <2>1, <2>2, <2>3 DEF Parse
<1>4. ASSUME NEW p \in Processes, ConfigRead(p) PROVE Read'
  <2>1. UNCHANGED <<line, at, opts, command, found>>
    BY <1>4, ReadingEnds
  <2>2. \E v \in {"done", "write"} : phase' = [phase EXCEPT ![p] = v]
    BY <1>4, ReadingEnds
  <2>3. QED
    BY <1>1, <2>1, <2>2 DEF Shape
<1>5. ASSUME NEW p \in Processes, ConfigWrite(p) PROVE Read'
  BY <1>1, <1>5 DEF ConfigWrite, own, Shape
<1>6. CASE UserEdits
  BY <1>2, <1>6 DEF UserEdits, own
<1>7. CASE UNCHANGED vars
  BY <1>2, <1>7 DEF vars
<1>8. ASSUME NEW p \in Processes, Start(p) PROVE Read'
  BY <1>8, StepReadStart
<1>9. QED
  BY <1>3, <1>4, <1>5, <1>6, <1>7, <1>8 DEF Next

\* Nothing has been read yet.
LEMMA InitRead == Init => Read
  BY DEF Init, Read, Reading

\* Of all that has been given on a finished line, the last flag has decided.
LEMMA ReadyDecided ==
  ASSUME Shape, Read, NEW p \in Processes, Ready(p), NEW o \in DOMAIN Defaults \ {"directory"}
  PROVE  LET given == Given(line[p], o)
         IN IF given # {}
            THEN \E j \in given : (\A i \in given : i <= j) /\ opts[p][o] = Says(line[p], j, o)
            ELSE line[p] # <<>> /\ Unflagged(o, opts[p][o], line[p], command[p], found[p])
<1>1. line[p] # <<>> /\ Decides(line[p], Len(line[p]) + 1, o, opts[p][o], command[p], found[p])
  <2>1. phase[p] \in {"run", "config"} /\ Reading(p)
    BY DEF Ready, Read
  <2>2. QED
    BY <2>1 DEF Reading
<1>2. {i \in Given(line[p], o) : i < Len(line[p]) + 1} = Given(line[p], o)
  <2>1. Len(line[p]) \in Nat /\ DOMAIN line[p] = 1 .. Len(line[p])
    BY LineTypes DEF Shape
  <2>2. Given(line[p], o) \subseteq 1 .. Len(line[p])
    BY <2>1 DEF Given
  <2>3. QED
    BY <2>1, <2>2
<1>3. QED
  BY <1>1, <1>2, Zenon DEF Decides

\* parse_command_line() after apply_config_file(): the last flag for an option decides, and
\* no value, and nothing behind "--", is taken for a flag, for any command lines and files.
THEOREM LastFlagDecides == Spec => []FlagsDecide
<1>1. Shape /\ Read => FlagsDecide
  <2>1. ASSUME Shape, Read, NEW p \in Processes, Ready(p), NEW o \in DOMAIN Defaults \ {"directory"}
        PROVE  LET given == Given(line[p], o)
               IN IF given # {}
                  THEN \E j \in given : (\A i \in given : i <= j) /\ opts[p][o] = Says(line[p], j, o)
                  ELSE o \notin Configurable => opts[p][o] = Defaults[o]
    BY <2>1, ReadyDecided, Zenon DEF Unflagged
  <2>2. QED
    BY <2>1, Zenon DEF FlagsDecide
<1>2. QED
  BY <1>1, InitEdits, InitRead, StepShape, StepFresh, StepEdits, StepRead, PTL DEF Spec

\* What `config set` was told is what a run uses that has no flag for it: the loader reads
\* back what a flag would make of the same word, for any words and any sizes of int and port.
THEOREM WhatIsSetIsUsed == Spec => []SetIsUsed
<1>1. Shape /\ Read => SetIsUsed
  <2>1. ASSUME Shape, Read, NEW p \in Processes, Ready(p), NEW o \in Configurable \cap DOMAIN found[p],
               Given(line[p], o) = {}, Meaning(o, found[p][o]) # Invalid,
               command[p] = "mirror" => o \notin DOMAIN MirrorDefaults
        PROVE  opts[p][o] = Meaning(o, found[p][o])
    <3>1. o \in DOMAIN Defaults \ {"directory"}
      BY <2>1, FlagsSetOptions DEF Configurable
    <3>2. Unflagged(o, opts[p][o], line[p], command[p], found[p])
      BY <2>1, <3>1, ReadyDecided, Zenon
    <3>3. QED
      BY <2>1, <3>2, Zenon DEF Unflagged
  <2>2. QED
    BY <2>1, Zenon DEF SetIsUsed
<1>2. QED
  BY <1>1, InitEdits, InitRead, StepShape, StepFresh, StepEdits, StepRead, PTL DEF Spec
=============================================================================
