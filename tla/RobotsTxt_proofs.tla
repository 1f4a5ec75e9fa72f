-------------------------- MODULE RobotsTxt_proofs --------------------------
(***************************************************************************)
(* Proofs about RobotsTxt, for files of any length, any patterns and any   *)
(* paths.                                                                  *)
(*                                                                         *)
(* Reading: the flags of parse() say, at every line, whether the last      *)
(* header names our agent or "*" (Flags), so that each rule ends up where  *)
(* its header sends it (Sorted).  Judging: the best rule so far is the     *)
(* longest of the matching ones considered, and an allowing one if there   *)
(* is one as long (BestSoFar).                                             *)
(*                                                                         *)
(* Matching: wildcard_match() never goes back further than to the last     *)
(* star, and finds all the same whether there are places in the text for   *)
(* what the pattern says (Fits).  The loop is a recursive function; that   *)
(* there is one, and only one where the loop can be, is proved from        *)
(* smallest counterexamples (OutcomesAreLoop, LoopsAgree).                 *)
(***************************************************************************)
EXTENDS RobotsTxt, SequenceTheorems, WellFoundedInduction, TLAPS

\* A pattern has a length, also without its anchor.
LEMMA Lengths ==
  ASSUME NEW pattern \in Patterns
  PROVE  Specificity(pattern) \in Nat
<1>1. pattern \in Seq(STRING)
  BY RobotsAssumption
<1>2. Len(pattern) \in Nat
  BY <1>1, LenProperties
<1>3. CASE Anchored(pattern)
  <2>1. Len(pattern) # 0
    BY <1>1, <1>3, EmptySeq DEF Anchored
  <2>2. Len(SubSeq(pattern, 1, Len(pattern) - 1)) = Len(pattern) - 1
    <3>1. Len(pattern) - 1 \in Int /\ 1 <= Len(pattern) /\ 1 \in Int
      BY <1>2, <2>1
    <3>2. \A i \in 1 .. Len(pattern) - 1 : pattern[i] \in STRING
      BY <1>1, <1>2, ElementOfSeq
    <3>3. Len(SubSeq(pattern, 1, Len(pattern) - 1))
            = IF 1 <= Len(pattern) - 1 THEN Len(pattern) - 1 - 1 + 1 ELSE 0
      BY <3>1, <3>2, SubSeqProperties
    <3> DEFINE short == SubSeq(pattern, 1, Len(pattern) - 1)
               L == Len(pattern)
    <3>4. L \in Nat /\ 1 <= L /\ Len(short) = IF 1 <= L - 1 THEN L - 1 - 1 + 1 ELSE 0
      BY <1>2, <3>1, <3>3
    <3> HIDE DEF short, L
    <3>5. Len(short) = L - 1
      BY <3>4
    <3>6. QED
      BY <3>5 DEF short, L
  <2>3. QED
    BY <1>2, <1>3, <2>1, <2>2 DEF Specificity, Body
<1>4. CASE ~ Anchored(pattern)
  BY <1>2, <1>4 DEF Specificity, Body
<1>5. QED
  BY <1>3, <1>4

-----------------------------------------------------------------------------
(* Type correctness.                                                       *)

LEMMA AddRuleType ==
  ASSUME NEW rules \in Seq(Rule), NEW pattern \in Patterns, NEW allow \in BOOLEAN
  PROVE  AddRule(rules, pattern, allow) \in Seq(Rule)
<1>1. CASE pattern = <<>>
  BY <1>1 DEF AddRule
<1>2. CASE pattern # <<>>
  <2>1. [pattern |-> pattern, allow |-> allow] \in Rule
    BY <1>2 DEF Rule
  <2>2. QED
    BY <1>2, <2>1, AppendProperties DEF AddRule
<1>3. QED
  BY <1>1, <1>2

\* Every rule that may decide is one of Rule.
LEMMA ChosenType ==
  ASSUME TypeOK
  PROVE  /\ Chosen.rules \in Seq(Rule)
         /\ Len(Chosen.rules) \in Nat
         /\ DOMAIN Chosen.rules = 1 .. Len(Chosen.rules)
         /\ \A k \in 1 .. Len(Chosen.rules) :
              /\ Chosen.rules[k] \in Rule
              /\ Specificity(Chosen.rules[k].pattern) \in Nat
              /\ Chosen.rules[k].allow \in BOOLEAN
<1>1. Chosen.rules \in Seq(Rule)
  BY DEF TypeOK, Chosen
<1>2. \A k \in 1 .. Len(Chosen.rules) : Chosen.rules[k] \in Rule
  BY <1>1, ElementOfSeq
<1>3. QED
  BY <1>1, <1>2, LenProperties, Lengths DEF Rule

LEMMA InitTypeOK == Init => TypeOK
<1> SUFFICES ASSUME Init PROVE TypeOK
  OBVIOUS
<1>1. <<>> \in Seq(Line) /\ <<>> \in Seq(Rule)
  BY EmptySeq
<1>2. lines \in Seq(Line)
  BY <1>1 DEF Init
<1>3. exact \in [rules : Seq(Rule), delay : Nat] /\ wildcard \in [rules : Seq(Rule), delay : Nat]
  BY <1>1 DEF Init
<1>4. best_allow \in BOOLEAN /\ matched \in BOOLEAN /\ verdict \in BOOLEAN \cup {None}
  BY DEF Init
<1>5. saw_exact \in BOOLEAN /\ collecting_agents \in BOOLEAN /\ calling \in BOOLEAN
  BY DEF Init
<1>6. group_matches_exact \in BOOLEAN /\ group_matches_wildcard \in BOOLEAN
  BY DEF Init
<1>7. path \in Paths \cup {None} /\ next \in Nat \ {0} /\ best_length \in Nat
  BY DEF Init
<1>8. QED
  BY <1>2, <1>3, <1>4, <1>5, <1>6, <1>7 DEF TypeOK

LEMMA ReadTypes ==
  ASSUME TypeOK, NEW line \in Line, Read(line)
  PROVE  /\ lines' \in Seq(Line)
         /\ UNCHANGED <<calling, path, next, bestVars, verdict>>
BY AppendProperties DEF Read, TypeOK

LEMMA StepTypeOK == TypeOK /\ [Next]_vars => TypeOK'
<1> SUFFICES ASSUME TypeOK, [Next]_vars PROVE TypeOK'
  OBVIOUS
<1>1. ASSUME NEW agent \in Agents, UserAgent(agent) PROVE TypeOK'
  <2>1. [field |-> "user-agent", value |-> agent] \in Line
    BY DEF Line
  <2>2. lines' \in Seq(Line) /\ UNCHANGED <<calling, path, next, bestVars, verdict>>
    BY <1>1, <2>1, ReadTypes DEF UserAgent
  <2>3. QED
    BY <1>1, <2>2 DEF UserAgent, TypeOK, bestVars
<1>2. ASSUME NEW pattern \in Patterns, NEW allow \in BOOLEAN, AllowOrDisallow(pattern, allow) PROVE TypeOK'
  <2>1. [field |-> IF allow THEN "allow" ELSE "disallow", value |-> pattern] \in Line
    BY DEF Line
  <2>2. lines' \in Seq(Line) /\ UNCHANGED <<calling, path, next, bestVars, verdict>>
    BY <1>2, <2>1, ReadTypes DEF AllowOrDisallow
  <2>3. exact' \in [rules : Seq(Rule), delay : Nat] /\ wildcard' \in [rules : Seq(Rule), delay : Nat]
    BY <1>2, AddRuleType DEF AllowOrDisallow, TypeOK
  <2>4. QED
    BY <1>2, <2>2, <2>3 DEF AllowOrDisallow, AfterAgents, TypeOK, bestVars
<1>3. ASSUME NEW seconds \in Delays, CrawlDelay(seconds) PROVE TypeOK'
  <2>1. [field |-> "crawl-delay", value |-> seconds] \in Line
    BY DEF Line
  <2>2. lines' \in Seq(Line) /\ UNCHANGED <<calling, path, next, bestVars, verdict>>
    BY <1>3, <2>1, ReadTypes DEF CrawlDelay
  <2>3. seconds > 0 => seconds \in Nat
    BY RobotsAssumption
  <2>4. exact' \in [rules : Seq(Rule), delay : Nat]
    BY <1>3, <2>3 DEF CrawlDelay, TypeOK
  <2>5. wildcard' \in [rules : Seq(Rule), delay : Nat]
    BY <1>3, <2>3 DEF CrawlDelay, TypeOK
  <2>6. QED
    BY <1>3, <2>2, <2>4, <2>5 DEF CrawlDelay, AfterAgents, TypeOK, bestVars
<1>4. CASE OtherField
  <2>1. [field |-> "other", value |-> None] \in Line
    BY DEF Line
  <2>2. lines' \in Seq(Line) /\ UNCHANGED <<calling, path, next, bestVars, verdict>>
    BY <1>4, <2>1, ReadTypes DEF OtherField
  <2>3. QED
    BY <1>4, <2>2 DEF OtherField, AfterAgents, TypeOK, bestVars
<1>5. ASSUME NEW p \in Paths, Ask(p) PROVE TypeOK'
  <2>1. best_allow' \in BOOLEAN /\ matched' \in BOOLEAN /\ verdict' \in BOOLEAN \cup {None} /\ calling' \in BOOLEAN
    BY <1>5 DEF Ask
  <2>2. path' \in Paths \cup {None} /\ next' \in Nat \ {0} /\ best_length' \in Nat
    BY <1>5 DEF Ask
  <2>3. QED
    BY <1>5, <2>1, <2>2 DEF Ask, TypeOK, fileVars, groupVars
<1>6. CASE Consider
  <2>1. PICK r \in Rule : r = Chosen.rules[next] /\ Specificity(r.pattern) \in Nat /\ r.allow \in BOOLEAN
    <3>1. next \in 1 .. Len(Chosen.rules)
      BY <1>6, ChosenType DEF Consider, TypeOK
    <3>2. QED
      BY <3>1, ChosenType
  <2>2. \/ best_length' = Specificity(r.pattern) /\ best_allow' = r.allow /\ matched' = TRUE
        \/ UNCHANGED bestVars
    BY <1>6, <2>1 DEF Consider
  <2>3. best_length' \in Nat /\ best_allow' \in BOOLEAN /\ matched' \in BOOLEAN
    BY <2>1, <2>2 DEF TypeOK, bestVars
  <2>4. next' \in Nat \ {0}
    BY <1>6 DEF Consider, TypeOK
  <2>5. QED
    BY <1>6, <2>3, <2>4 DEF Consider, TypeOK, fileVars, groupVars
<1>7. CASE Answer
  BY <1>7 DEF Answer, TypeOK, fileVars, groupVars, bestVars
<1>8. CASE UNCHANGED vars
  BY <1>8 DEF vars, TypeOK, fileVars, groupVars, bestVars
<1>9. QED
  BY <1>1, <1>2, <1>3, <1>4, <1>5, <1>6, <1>7, <1>8 DEF Next, Parse

\* The variables keep their types for any robots.txt; a delay is never negative.
THEOREM TypeCorrect == Spec => []TypeOK
BY InitTypeOK, StepTypeOK, PTL DEF Spec

-----------------------------------------------------------------------------
(* Reading.                                                                *)

Members(rules) == {rules[k] : k \in DOMAIN rules}
RulesIn(bucket) == Members(bucket.rules)

\* The header that the next line would stand under names one of these agents.
Open(agents) == \E j \in Header(Len(lines) + 1) : lines[j].value \in agents

Flags ==
  /\ saw_exact <=> NamesUs
  /\ group_matches_exact <=> Open(Ours)
  /\ group_matches_wildcard <=> Open({Star})
  /\ collecting_agents <=> Len(lines) # 0 /\ lines[Len(lines)].field = "user-agent"

Sorted ==
  /\ RulesIn(exact) = RulesUnder(Ours)
  /\ RulesIn(wildcard) = RulesUnder({Star})

\* Appending a rule adds it to the set of the rules.
LEMMA RulesAppended ==
  ASSUME NEW rules \in Seq(Rule), NEW pattern \in Patterns, NEW allow \in BOOLEAN
  PROVE  Members(AddRule(rules, pattern, allow))
           = Members(rules) \cup
               (IF pattern = <<>> THEN {} ELSE {[pattern |-> pattern, allow |-> allow]})
<1>1. CASE pattern = <<>>
  BY <1>1 DEF AddRule
<1>2. CASE pattern # <<>>
  <2> DEFINE rule == [pattern |-> pattern, allow |-> allow]
             longer == Append(rules, rule)
  <2>1. rule \in Rule
    BY <1>2 DEF Rule
  <2>2. /\ longer \in Seq(Rule) /\ Len(longer) = Len(rules) + 1
        /\ \A i \in 1 .. Len(rules) : longer[i] = rules[i]
        /\ longer[Len(rules) + 1] = rule
    BY <2>1, AppendProperties
  <2>3. DOMAIN longer = 1 .. Len(rules) + 1 /\ DOMAIN rules = 1 .. Len(rules) /\ Len(rules) \in Nat
    BY <2>2, LenProperties
  <2> HIDE DEF longer, rule
  <2>4. Members(longer) = Members(rules) \cup {rule}
    BY <2>2, <2>3 DEF Members
  <2>5. QED
    BY <1>2, <2>4 DEF longer, rule, AddRule
<1>3. QED
  BY <1>1, <1>2

\* What a new line does to the lines before it.
LEMMA LineAdded ==
  ASSUME TypeOK, NEW line \in Line, Read(line)
  PROVE  /\ Len(lines) \in Nat
         /\ Len(lines)' = Len(lines) + 1
         /\ \A i \in 1 .. Len(lines) : lines'[i] = lines[i]
         /\ lines'[Len(lines) + 1] = line
BY AppendProperties, LenProperties DEF Read, TypeOK

\* The headers of the lines before it stay, and what follows stands under it, if it
\* names an agent.
LEMMA HeadersAfter ==
  ASSUME TypeOK, NEW line \in Line, Read(line), Flags, NEW n, n = Len(lines)
  PROVE  /\ n \in Nat /\ Len(lines)' = n + 1
         /\ \A i \in 1 .. n : lines'[i] = lines[i]
         /\ lines'[n + 1] = line
         /\ \A i \in 1 .. n + 1 : Header(i)' = Header(i)
         /\ line.field # "user-agent" => Header(n + 2)' = Header(n + 1)
         /\ line.field = "user-agent" =>
              Header(n + 2)' = {n + 1} \cup (IF collecting_agents THEN Header(n + 1) ELSE {})
<1>1. /\ n \in Nat /\ Len(lines)' = n + 1
      /\ \A i \in 1 .. n : lines'[i] = lines[i]
      /\ lines'[n + 1] = line
  BY LineAdded
<1>2. collecting_agents <=> n # 0 /\ lines[n].field = "user-agent"
  BY DEF Flags
<1>3. \A i \in 1 .. n + 1 : Header(i)' = Header(i)
  BY <1>1 DEF Header
<1>4. \A j : j \in Header(n + 1) <=>
        /\ j \in 1 .. n /\ lines[j].field = "user-agent"
        /\ \A k \in j .. n :
             lines[k].field # "user-agent" => \A m \in k .. n : lines[m].field # "user-agent"
  BY <1>1 DEF Header
<1>5. \A j : j \in Header(n + 2)' <=>
        /\ j \in 1 .. n + 1 /\ lines'[j].field = "user-agent"
        /\ \A k \in j .. n + 1 :
             lines'[k].field # "user-agent" => \A m \in k .. n + 1 : lines'[m].field # "user-agent"
  BY <1>1 DEF Header
<1>6. ASSUME line.field # "user-agent" PROVE Header(n + 2)' = Header(n + 1)
  <2>1. \A j : j \in Header(n + 2)' => j \in Header(n + 1)
    BY <1>1, <1>4, <1>5, <1>6
  <2>2. \A j : j \in Header(n + 1) => j \in Header(n + 2)'
    BY <1>1, <1>4, <1>5, <1>6
  <2>3. QED
    BY <2>1, <2>2
<1>7. ASSUME line.field = "user-agent", n # 0 /\ lines[n].field = "user-agent"
      PROVE  Header(n + 2)' = {n + 1} \cup Header(n + 1)
  <2>1. n + 1 \in Header(n + 2)'
    BY <1>1, <1>5, <1>7
  <2>2. \A j : j \in Header(n + 2)' => j = n + 1 \/ j \in Header(n + 1)
    BY <1>1, <1>4, <1>5
  <2>3. ASSUME NEW j, j \in Header(n + 1) PROVE j \in Header(n + 2)'
    <3>1. j \in 1 .. n /\ lines[j].field = "user-agent"
      BY <1>4, <2>3
    <3>2. \A k \in j .. n : lines[k].field = "user-agent"
      BY <1>1, <1>4, <1>7, <2>3
    <3>3. \A k \in j .. n + 1 : lines'[k].field = "user-agent"
      BY <1>1, <1>7, <3>1, <3>2
    <3>4. QED
      BY <1>1, <1>5, <3>1, <3>3
  <2>4. QED
    BY <2>1, <2>2, <2>3
<1>8. ASSUME line.field = "user-agent", ~ (n # 0 /\ lines[n].field = "user-agent")
      PROVE  Header(n + 2)' = {n + 1}
  <2>1. n + 1 \in Header(n + 2)'
    BY <1>1, <1>5, <1>8
  <2>2. \A j : j \in Header(n + 2)' => j = n + 1
    BY <1>1, <1>4, <1>5, <1>8
  <2>3. QED
    BY <2>1, <2>2
<1>9. QED
  BY <1>1, <1>2, <1>3, <1>6, <1>7, <1>8

\* A User-agent line opens its group to an agent, or adds it to the group that is
\* still collecting; any other line leaves the group as it is.
LEMMA OpenAfter ==
  ASSUME TypeOK, NEW line \in Line, Read(line), Flags, NEW agents
  PROVE  Open(agents)' <=>
           IF line.field = "user-agent"
           THEN line.value \in agents \/ (collecting_agents /\ Open(agents))
           ELSE Open(agents)
<1>1. PICK n : n = Len(lines)
  OBVIOUS
<1>2. /\ n \in Nat /\ Len(lines)' = n + 1
      /\ \A i \in 1 .. n : lines'[i] = lines[i]
      /\ lines'[n + 1] = line
      /\ line.field # "user-agent" => Header(n + 2)' = Header(n + 1)
      /\ line.field = "user-agent" =>
           Header(n + 2)' = {n + 1} \cup (IF collecting_agents THEN Header(n + 1) ELSE {})
  BY <1>1, HeadersAfter
<1>3. Header(n + 1) \subseteq 1 .. n
  BY <1>2 DEF Header
<1>4. Open(agents) <=> \E j \in Header(n + 1) : lines[j].value \in agents
  BY <1>1 DEF Open
<1>5. Open(agents)' <=> \E j \in Header(n + 2)' : lines'[j].value \in agents
  <2>1. Len(lines)' + 1 = n + 2
    BY <1>2
  <2>2. QED
    BY <2>1 DEF Open
<1>6. CASE line.field # "user-agent"
  BY <1>2, <1>3, <1>4, <1>5, <1>6
<1>7. CASE line.field = "user-agent" /\ collecting_agents
  <2>1. Header(n + 2)' = {n + 1} \cup Header(n + 1)
    BY <1>2, <1>7
  <2>2. QED
    BY <1>2, <1>3, <1>4, <1>5, <1>7, <2>1
<1>8. CASE line.field = "user-agent" /\ ~ collecting_agents
  <2>1. Header(n + 2)' = {n + 1}
    BY <1>2, <1>8
  <2>2. QED
    BY <1>2, <1>4, <1>5, <1>8, <2>1
<1>9. QED
  BY <1>6, <1>7, <1>8

LEMMA NamesAfter ==
  ASSUME TypeOK, NEW line \in Line, Read(line)
  PROVE  NamesUs' <=> NamesUs \/ (line.field = "user-agent" /\ line.value \in Ours)
<1>1. PICK n : n = Len(lines)
  OBVIOUS
<1>2. /\ n \in Nat /\ Len(lines)' = n + 1
      /\ \A i \in 1 .. n : lines'[i] = lines[i]
      /\ lines'[n + 1] = line
  BY <1>1, LineAdded
<1>3. NamesUs <=> \E i \in 1 .. n : lines[i].field = "user-agent" /\ lines[i].value \in Ours
  BY <1>1 DEF NamesUs
<1>4. NamesUs' <=> \E i \in 1 .. n + 1 : lines'[i].field = "user-agent" /\ lines'[i].value \in Ours
  BY <1>2 DEF NamesUs
<1>5. QED
  BY <1>2, <1>3, <1>4

\* A rule belongs to the agents the last header names, and takes nothing away from
\* any others.
LEMMA RulesAfter ==
  ASSUME TypeOK, NEW line \in Line, Read(line), Flags, NEW agents
  PROVE  RulesUnder(agents)' =
           RulesUnder(agents) \cup
             (IF IsRule(line) /\ Open(agents) THEN {RuleOf(line)} ELSE {})
<1>1. PICK n : n = Len(lines)
  OBVIOUS
<1>2. /\ n \in Nat /\ Len(lines)' = n + 1
      /\ \A i \in 1 .. n : lines'[i] = lines[i]
      /\ lines'[n + 1] = line
      /\ \A i \in 1 .. n + 1 : Header(i)' = Header(i)
  BY <1>1, HeadersAfter
<1> DEFINE Under(k) == IsRule(lines[k]) /\ \E j \in Header(k) : lines[j].value \in agents
           Later(k) == IsRule(lines'[k]) /\ \E j \in Header(k) : lines'[j].value \in agents
<1>3. RulesUnder(agents) = {RuleOf(lines[i]) : i \in {k \in 1 .. n : Under(k)}}
  BY <1>1 DEF RulesUnder
<1>4. RulesUnder(agents)' = {RuleOf(lines'[i]) : i \in {k \in 1 .. n + 1 : Later(k)}}
  BY <1>2 DEF RulesUnder, RuleOf, IsRule
<1>5. \A k \in 1 .. n + 1 : Header(k) \subseteq 1 .. n
  BY <1>2 DEF Header
<1>6. \A k \in 1 .. n : Later(k) <=> Under(k)
  BY <1>2, <1>5 DEF IsRule
<1>7. Later(n + 1) <=> IsRule(line) /\ Open(agents)
  BY <1>1, <1>2, <1>5 DEF IsRule, Open
<1> HIDE DEF Under, Later
<1>8. \A k \in 1 .. n : RuleOf(lines'[k]) = RuleOf(lines[k])
  BY <1>2
<1>9. QED
  BY <1>2, <1>3, <1>4, <1>6, <1>7, <1>8

LEMMA InitReading == Init => Flags /\ Sorted
<1> SUFFICES ASSUME Init PROVE Flags /\ Sorted
  OBVIOUS
<1>1. lines = <<>> /\ Len(lines) = 0
  BY EmptySeq DEF Init
<1>2. ~ NamesUs /\ (\A agents : ~ Open(agents) /\ RulesUnder(agents) = {})
  BY <1>1 DEF NamesUs, Open, Header, RulesUnder
<1>3. Flags
  BY <1>1, <1>2 DEF Flags, Init
<1>4. RulesIn(exact) = {} /\ RulesIn(wildcard) = {}
  BY EmptySeq DEF RulesIn, Members, Init
<1>5. QED
  BY <1>2, <1>3, <1>4 DEF Sorted

LEMMA StepFlags == TypeOK /\ Flags /\ [Next]_vars => Flags'
<1> SUFFICES ASSUME TypeOK, Flags, [Next]_vars PROVE Flags'
  OBVIOUS
<1>1. ASSUME NEW line \in Line, Read(line)
      PROVE  /\ Open(Ours)' <=> IF line.field = "user-agent"
                                THEN line.value \in Ours \/ (collecting_agents /\ Open(Ours))
                                ELSE Open(Ours)
             /\ Open({Star})' <=> IF line.field = "user-agent"
                                  THEN line.value = Star \/ (collecting_agents /\ Open({Star}))
                                  ELSE Open({Star})
             /\ NamesUs' <=> NamesUs \/ (line.field = "user-agent" /\ line.value \in Ours)
             /\ (Len(lines) # 0 /\ lines[Len(lines)].field = "user-agent")'
                  <=> line.field = "user-agent"
  <2>1. Len(lines)' # 0 /\ lines'[Len(lines)'] = line
    BY <1>1, LineAdded
  <2>2. QED
    BY <1>1, <2>1, OpenAfter, NamesAfter
<1>2. ASSUME NEW agent \in Agents, UserAgent(agent) PROVE Flags'
  <2>1. [field |-> "user-agent", value |-> agent] \in Line
    BY DEF Line
  <2>2. QED
    BY <1>1, <1>2, <2>1 DEF UserAgent, Flags
<1>3. ASSUME NEW line \in Line, line.field # "user-agent", Read(line), AfterAgents PROVE Flags'
  BY <1>1, <1>3 DEF AfterAgents, Flags
<1>4. ASSUME NEW pattern \in Patterns, NEW allow \in BOOLEAN, AllowOrDisallow(pattern, allow) PROVE Flags'
  <2>1. [field |-> IF allow THEN "allow" ELSE "disallow", value |-> pattern] \in Line
    BY DEF Line
  <2>2. QED
    BY <1>3, <1>4, <2>1 DEF AllowOrDisallow
<1>5. ASSUME NEW seconds \in Delays, CrawlDelay(seconds) PROVE Flags'
  <2>1. [field |-> "crawl-delay", value |-> seconds] \in Line
    BY DEF Line
  <2>2. QED
    BY <1>3, <1>5, <2>1 DEF CrawlDelay
<1>6. CASE OtherField
  <2>1. [field |-> "other", value |-> None] \in Line
    BY DEF Line
  <2>2. QED
    BY <1>3, <1>6, <2>1 DEF OtherField
<1>7. CASE UNCHANGED <<fileVars, groupVars>>
  BY <1>7 DEF fileVars, groupVars, Flags, NamesUs, Open, Header
<1>8. QED
  <2>1. \A p \in Paths : Ask(p) => UNCHANGED <<fileVars, groupVars>>
    BY DEF Ask
  <2>2. Consider \/ Answer \/ UNCHANGED vars => UNCHANGED <<fileVars, groupVars>>
    BY DEF Consider, Answer, vars
  <2>3. QED
    BY <1>2, <1>4, <1>5, <1>6, <1>7, <2>1, <2>2 DEF Next, Parse

LEMMA StepSorted == TypeOK /\ Flags /\ Sorted /\ [Next]_vars => Sorted'
<1> SUFFICES ASSUME TypeOK, Flags, Sorted, [Next]_vars PROVE Sorted'
  OBVIOUS
<1>1. ASSUME NEW line \in Line, Read(line), ~ IsRule(line), exact'.rules = exact.rules,
             wildcard'.rules = wildcard.rules
      PROVE  Sorted'
  <2>1. \A agents : RulesUnder(agents)' = RulesUnder(agents)
    BY <1>1, RulesAfter
  <2>2. RulesIn(exact)' = RulesIn(exact) /\ RulesIn(wildcard)' = RulesIn(wildcard)
    BY <1>1 DEF RulesIn
  <2>3. QED
    BY <2>1, <2>2 DEF Sorted
<1>2. ASSUME NEW agent \in Agents, UserAgent(agent) PROVE Sorted'
  <2>1. [field |-> "user-agent", value |-> agent] \in Line
    BY DEF Line
  <2>2. QED
    BY <1>1, <1>2, <2>1 DEF UserAgent, IsRule
<1>3. ASSUME NEW pattern \in Patterns, NEW allow \in BOOLEAN, AllowOrDisallow(pattern, allow) PROVE Sorted'
  <2> DEFINE line == [field |-> IF allow THEN "allow" ELSE "disallow", value |-> pattern]
             New == IF pattern = <<>> THEN {} ELSE {[pattern |-> pattern, allow |-> allow]}
  <2>1. line \in Line /\ Read(line)
    BY <1>3 DEF Line, AllowOrDisallow
  <2>2. (IF IsRule(line) THEN {RuleOf(line)} ELSE {}) = New
    BY DEF IsRule, RuleOf
  <2>3. RulesUnder(Ours)' = RulesUnder(Ours) \cup (IF group_matches_exact THEN New ELSE {})
    BY <2>1, <2>2, RulesAfter DEF Flags
  <2>4. RulesUnder({Star})' = RulesUnder({Star}) \cup (IF group_matches_wildcard THEN New ELSE {})
    BY <2>1, <2>2, RulesAfter DEF Flags
  <2>5. exact.rules \in Seq(Rule) /\ wildcard.rules \in Seq(Rule)
    BY DEF TypeOK
  <2>6. RulesIn(exact)' = RulesIn(exact) \cup (IF group_matches_exact THEN New ELSE {})
    <3>1. CASE group_matches_exact
      <4>1. exact'.rules = AddRule(exact.rules, pattern, allow)
        BY <1>3, <3>1 DEF AllowOrDisallow, TypeOK
      <4>2. Members(AddRule(exact.rules, pattern, allow)) = Members(exact.rules) \cup New
        BY <2>5, RulesAppended
      <4>3. QED
        BY <3>1, <4>1, <4>2 DEF RulesIn
    <3>2. CASE ~ group_matches_exact
      BY <1>3, <3>2 DEF AllowOrDisallow, RulesIn
    <3>3. QED
      BY <3>1, <3>2
  <2>7. RulesIn(wildcard)' = RulesIn(wildcard) \cup (IF group_matches_wildcard THEN New ELSE {})
    <3>1. CASE group_matches_wildcard
      <4>1. wildcard'.rules = AddRule(wildcard.rules, pattern, allow)
        BY <1>3, <3>1 DEF AllowOrDisallow, TypeOK
      <4>2. Members(AddRule(wildcard.rules, pattern, allow)) = Members(wildcard.rules) \cup New
        BY <2>5, RulesAppended
      <4>3. QED
        BY <3>1, <4>1, <4>2 DEF RulesIn
    <3>2. CASE ~ group_matches_wildcard
      BY <1>3, <3>2 DEF AllowOrDisallow, RulesIn
    <3>3. QED
      BY <3>1, <3>2
  <2> HIDE DEF New
  <2>8. QED
    BY <2>3, <2>4, <2>6, <2>7 DEF Sorted
<1>4. ASSUME NEW seconds \in Delays, CrawlDelay(seconds) PROVE Sorted'
  <2>1. [field |-> "crawl-delay", value |-> seconds] \in Line
    BY DEF Line
  <2>2. exact'.rules = exact.rules /\ wildcard'.rules = wildcard.rules
    BY <1>4 DEF CrawlDelay, TypeOK
  <2>3. QED
    BY <1>1, <1>4, <2>1, <2>2 DEF CrawlDelay, IsRule
<1>5. CASE OtherField
  <2>1. [field |-> "other", value |-> None] \in Line
    BY DEF Line
  <2>2. QED
    BY <1>1, <1>5, <2>1 DEF OtherField, IsRule
<1>6. CASE UNCHANGED fileVars
  <2>1. lines' = lines /\ exact' = exact /\ wildcard' = wildcard
    BY <1>6 DEF fileVars
  <2>2. \A i : Header(i)' = Header(i)
    BY <2>1 DEF Header
  <2>3. \A agents : RulesUnder(agents)' = RulesUnder(agents)
    BY <2>1, <2>2 DEF RulesUnder
  <2>4. RulesIn(exact)' = RulesIn(exact) /\ RulesIn(wildcard)' = RulesIn(wildcard)
    BY <2>1 DEF RulesIn
  <2>5. QED
    BY <2>3, <2>4 DEF Sorted
<1>7. QED
  <2>1. \A p \in Paths : Ask(p) => UNCHANGED fileVars
    BY DEF Ask
  <2>2. Consider \/ Answer \/ UNCHANGED vars => UNCHANGED fileVars
    BY DEF Consider, Answer, vars
  <2>3. QED
    BY <1>2, <1>3, <1>4, <1>5, <1>6, <2>1, <2>2 DEF Next, Parse

\* For any file, parse() keeps the rules of the groups that name our agent and no
\* others, or, if no group does, those of the groups that name "*".
THEOREM KeepsOwnGroups == Spec => []OwnGroupsRules
<1>1. Flags /\ Sorted => OwnGroupsRules
  BY DEF Flags, Sorted, OwnGroupsRules, Chosen, RulesIn, Members
<1>2. QED
  BY <1>1, InitTypeOK, StepTypeOK, InitReading, StepFlags, StepSorted, PTL DEF Spec

-----------------------------------------------------------------------------
(* Judging.                                                                *)

Considered == {k \in 1 .. next - 1 : Matching[Chosen.rules[k].pattern][path]}

BestSoFar ==
  /\ matched <=> Considered # {}
  /\ matched => \E k \in Considered : Specificity(Chosen.rules[k].pattern) = best_length
  /\ \A k \in Considered : Specificity(Chosen.rules[k].pattern) <= best_length
  /\ matched =>
       (best_allow <=> \E k \in Considered :
          /\ Chosen.rules[k].allow
          /\ Specificity(Chosen.rules[k].pattern) = best_length)

\* Nothing is considered while the file is read; a verdict is that of all its rules.
Judged ==
  /\ path = None => next = 1 /\ ~ matched /\ ~ calling /\ verdict = None
  /\ next <= Len(Chosen.rules) + 1 \/ path = None
  /\ verdict # None => next = Len(Chosen.rules) + 1 /\ verdict = (matched => best_allow)

LEMMA InitJudging == Init => BestSoFar /\ Judged
<1> SUFFICES ASSUME Init PROVE BestSoFar /\ Judged
  OBVIOUS
<1>1. next = 1 /\ path = None /\ ~ matched /\ ~ calling /\ verdict = None
  BY DEF Init
<1>2. Considered = {}
  BY <1>1 DEF Considered
<1>3. QED
  BY <1>1, <1>2 DEF BestSoFar, Judged

LEMMA StepJudging == TypeOK /\ BestSoFar /\ Judged /\ [Next]_vars => BestSoFar' /\ Judged'
<1> SUFFICES ASSUME TypeOK, BestSoFar, Judged, [Next]_vars PROVE BestSoFar' /\ Judged'
  OBVIOUS
<1> DEFINE rules == Chosen.rules
<1>1. /\ Len(rules) \in Nat
      /\ \A k \in 1 .. Len(rules) :
           Specificity(rules[k].pattern) \in Nat /\ rules[k].allow \in BOOLEAN
  BY ChosenType
<1>2. next \in Nat \ {0} /\ best_length \in Nat /\ best_allow \in BOOLEAN /\ matched \in BOOLEAN
  BY DEF TypeOK
<1>3. ASSUME NEW line, Read(line) PROVE BestSoFar' /\ Judged'
  <2>1. path = None /\ path' = None /\ next' = next /\ verdict' = verdict /\ calling' = calling
    BY <1>3 DEF Read
  <2>2. matched' = matched
    BY <1>3 DEF Read, bestVars
  <2>3. next' = 1 /\ ~ matched' /\ verdict' = None /\ ~ calling'
    BY <2>1, <2>2 DEF Judged
  <2>4. Considered' = {}
    BY <2>3 DEF Considered
  <2>5. QED
    BY <2>1, <2>3, <2>4 DEF BestSoFar, Judged
<1>4. CASE Parse
  BY <1>3, <1>4 DEF Parse, UserAgent, AllowOrDisallow, CrawlDelay, OtherField
<1>5. ASSUME NEW p \in Paths, Ask(p) PROVE BestSoFar' /\ Judged'
  <2>1. next' = 1 /\ ~ matched' /\ path' = p /\ verdict' = None
    BY <1>5 DEF Ask
  <2>2. Considered' = {}
    BY <2>1 DEF Considered
  <2>3. Chosen' = Chosen
    BY <1>5 DEF Ask, Chosen, fileVars, groupVars
  <2>4. path' # None
    BY <2>1, RobotsAssumption
  <2>5. BestSoFar'
    BY <2>1, <2>2 DEF BestSoFar
  <2>6. QED
    BY <1>1, <2>1, <2>3, <2>4, <2>5 DEF Judged
<1>6. CASE Consider
  <2> DEFINE size(k) == Specificity(rules[k].pattern)
             old == {k \in 1 .. next - 1 : Matching[rules[k].pattern][path]}
             hit == Matching[rules[next].pattern][path]
             better == ~ matched \/ size(next) > best_length \/ (size(next) = best_length /\ rules[next].allow)
  <2>1. /\ calling /\ next <= Len(rules) /\ next' = next + 1
        /\ Chosen' = Chosen /\ path' = path /\ verdict' = verdict /\ calling' = calling
    BY <1>6 DEF Consider, Chosen, fileVars, groupVars
  <2>2. IF hit /\ better
        THEN best_length' = size(next) /\ best_allow' = rules[next].allow /\ matched' = TRUE
        ELSE best_length' = best_length /\ best_allow' = best_allow /\ matched' = matched
    BY <1>6 DEF Consider, Better, bestVars
  <2>3. Considered = old /\ Considered' = {k \in 1 .. next : Matching[rules[k].pattern][path]}
    BY <1>2, <2>1 DEF Considered
  <2>4. Considered' = old \cup (IF hit THEN {next} ELSE {})
    BY <1>2, <2>3
  <2>5. \A k \in old \cup {next} : size(k) \in Nat /\ rules[k].allow \in BOOLEAN
    BY <1>1, <1>2, <2>1
  <2>6. /\ matched <=> old # {}
        /\ matched => \E k \in old : size(k) = best_length
        /\ \A k \in old : size(k) <= best_length
        /\ matched => (best_allow <=> \E k \in old : rules[k].allow /\ size(k) = best_length)
    BY <2>3 DEF BestSoFar
  <2>7. BestSoFar' <=>
        /\ matched' <=> Considered' # {}
        /\ matched' => \E k \in Considered' : size(k) = best_length'
        /\ \A k \in Considered' : size(k) <= best_length'
        /\ matched' => (best_allow' <=> \E k \in Considered' : rules[k].allow /\ size(k) = best_length')
    BY <2>1 DEF BestSoFar
  <2> HIDE DEF size, old, hit, rules
  <2>8. ASSUME hit /\ better PROVE BestSoFar'
    BY <1>2, <2>2, <2>4, <2>5, <2>6, <2>7, <2>8
  <2>9. ASSUME hit /\ ~ better PROVE BestSoFar'
    BY <1>2, <2>2, <2>4, <2>5, <2>6, <2>7, <2>9
  <2>10. ASSUME ~ hit PROVE BestSoFar'
    BY <2>2, <2>4, <2>6, <2>7, <2>10
  <2>11. Judged'
    BY <1>1, <1>2, <2>1 DEF Judged, rules
  <2>12. QED
    BY <2>8, <2>9, <2>10, <2>11
<1>7. CASE Answer
  <2>1. /\ calling /\ next > Len(rules) /\ next' = next /\ verdict' = (matched => best_allow)
        /\ matched' = matched /\ best_length' = best_length /\ best_allow' = best_allow
        /\ Chosen' = Chosen /\ path' = path
    BY <1>7 DEF Answer, Chosen, fileVars, groupVars, bestVars
  <2>2. path # None /\ next = Len(rules) + 1
    BY <1>1, <1>2, <2>1 DEF Judged
  <2>3. Considered' = Considered
    BY <2>1 DEF Considered
  <2>4. BestSoFar'
    BY <2>1, <2>3 DEF BestSoFar
  <2>5. Judged'
    BY <2>1, <2>2 DEF Judged
  <2>6. QED
    BY <2>4, <2>5
<1>8. CASE UNCHANGED vars
  <2>1. /\ next' = next /\ verdict' = verdict /\ calling' = calling
        /\ matched' = matched /\ best_length' = best_length /\ best_allow' = best_allow
        /\ Chosen' = Chosen /\ path' = path
    BY <1>8 DEF vars, Chosen, fileVars, groupVars, bestVars
  <2>2. Considered' = Considered
    BY <2>1 DEF Considered
  <2>3. BestSoFar'
    BY <2>1, <2>2 DEF BestSoFar
  <2>4. Judged'
    BY <2>1 DEF Judged
  <2>5. QED
    BY <2>3, <2>4
<1>9. QED
  BY <1>4, <1>5, <1>6, <1>7, <1>8 DEF Next

\* For any rules in any order: of the rules that match, is_allowed() follows the
\* longest one, and one that allows if another is as long.
THEOREM FollowsLongestRule == Spec => []LongestRuleDecides
<1>1. TypeOK /\ BestSoFar /\ Judged => LongestRuleDecides
  <2> SUFFICES ASSUME TypeOK, BestSoFar, Judged, verdict # None
               PROVE  verdict = AllowedBy(Chosen.rules, path, Matching)
    BY DEF LongestRuleDecides
  <2> DEFINE rules == Chosen.rules
             at == {k \in DOMAIN rules : Matching[rules[k].pattern][path]}
             matching == {rules[k] : k \in at}
  <2>1. /\ Len(rules) \in Nat /\ DOMAIN rules = 1 .. Len(rules)
        /\ \A k \in 1 .. Len(rules) :
             Specificity(rules[k].pattern) \in Nat /\ rules[k].allow \in BOOLEAN
    BY ChosenType
  <2>2. next = Len(rules) + 1 /\ verdict = (matched => best_allow)
    BY DEF Judged
  <2>3. at = Considered
    BY <2>1, <2>2 DEF Considered
  <2>4. matched <=> matching # {}
    BY <2>3 DEF BestSoFar
  <2>5. AllowedBy(rules, path, Matching) =
          (matching # {} =>
             \E r \in matching :
               r.allow /\ \A s \in matching : Specificity(s.pattern) <= Specificity(r.pattern))
    BY DEF AllowedBy
  <2>6. ASSUME matched
        PROVE  best_allow <=>
                 \E r \in matching :
                   r.allow /\ \A s \in matching : Specificity(s.pattern) <= Specificity(r.pattern)
    <3>1. /\ \E k \in at : Specificity(rules[k].pattern) = best_length
          /\ \A k \in at : Specificity(rules[k].pattern) <= best_length
          /\ best_allow <=> \E k \in at : rules[k].allow /\ Specificity(rules[k].pattern) = best_length
      BY <2>3, <2>6 DEF BestSoFar
    <3>2. best_length \in Nat /\ \A k \in at : Specificity(rules[k].pattern) \in Nat
      BY <2>1 DEF TypeOK
    <3> HIDE DEF rules, at
    <3>3. QED
      BY <3>1, <3>2
  <2>7. QED
    BY <2>2, <2>4, <2>5, <2>6
<1>2. QED
  BY <1>1, InitTypeOK, StepTypeOK, InitJudging, StepJudging, PTL DEF Spec

\* A set of numbers that is not empty has a smallest one.
LEMMA Smallest ==
  ASSUME NEW T \in SUBSET Nat, T # {}
  PROVE  \E x \in T : \A y \in T : x <= y
<1>1. \E x \in T : \A y \in T : ~ (<<y, x>> \in OpToRel(<, Nat))
  BY NatLessThanWellFounded, WFMin, Zenon
<1>2. PICK x \in T : \A y \in T : ~ (<<y, x>> \in OpToRel(<, Nat))
  BY <1>1, Zenon
<1>3. ASSUME NEW y \in T PROVE x <= y
  <2>1. <<y, x>> \in Nat \X Nat /\ ~ (<<y, x>> \in OpToRel(<, Nat))
    BY <1>2
  <2>2. ~ (y < x)
    BY <2>1 DEF OpToRel
  <2>3. QED
    BY <2>2
<1>4. QED
  BY <1>3

-----------------------------------------------------------------------------
(* What a pattern matches.                                                 *)

Follows(pattern, text, at, k) ==
  IF pattern[k] = "*" THEN at[k - 1] <= at[k]
  ELSE at[k] = at[k - 1] + 1 /\ text[at[k]] = pattern[k]

\* How much of the text is in front of place t.
Before(text, t) == IF t - 1 <= Len(text) THEN t - 1 ELSE Len(text)

Places(pattern, text, p) == [p - 1 .. Len(pattern) -> 0 .. Len(text)]

\* The pattern from p on stands for the text from t on.
Fits(pattern, text, p, t) ==
  \E at \in Places(pattern, text, p) :
    /\ at[p - 1] = Before(text, t) /\ at[Len(pattern)] = Len(text)
    /\ \A k \in p .. Len(pattern) : Follows(pattern, text, at, k)

AllStars(pattern, p) == \A k \in p .. Len(pattern) : pattern[k] = "*"

\* Places never go back.
LEMMA PlacesRise ==
  ASSUME NEW pattern, NEW text, Len(pattern) \in Nat, Len(text) \in Nat,
         NEW p \in 1 .. Len(pattern) + 1, NEW at \in Places(pattern, text, p),
         \A k \in p .. Len(pattern) : Follows(pattern, text, at, k)
  PROVE  \A k \in p - 1 .. Len(pattern) : at[p - 1] <= at[k]
<1> DEFINE P == Len(pattern)
           low == {k \in p - 1 .. P : ~ (at[p - 1] <= at[k])}
<1>1. at \in [p - 1 .. P -> 0 .. Len(text)] /\ P \in Nat
  BY DEF Places
<1>2. SUFFICES ASSUME low # {} PROVE FALSE
  OBVIOUS
<1>3. low \in SUBSET Nat
  OBVIOUS
<1>4. PICK k \in low : \A j \in low : k <= j
  BY <1>2, <1>3, Smallest
<1>5. k \in p .. P /\ k - 1 \in p - 1 .. P /\ k - 1 \notin low
  BY <1>1, <1>4
<1>6. at[p - 1] <= at[k - 1]
  BY <1>5
<1>7. at[k - 1] <= at[k]
  <2>1. Follows(pattern, text, at, k)
    BY <1>5
  <2>2. at[k - 1] \in 0 .. Len(text) /\ at[k] \in 0 .. Len(text)
    BY <1>1, <1>5
  <2>3. QED
    BY <2>1, <2>2 DEF Follows
<1>8. at[p - 1] \in Nat /\ at[k - 1] \in Nat /\ at[k] \in Nat
  BY <1>1, <1>5
<1>9. QED
  BY <1>4, <1>6, <1>7, <1>8

\* Nothing but stars stands for the end of the text.
LEMMA FitsEnd ==
  ASSUME NEW pattern, NEW text, Len(pattern) \in Nat, Len(text) \in Nat,
         NEW p \in 1 .. Len(pattern) + 1, NEW t \in Nat, t > Len(text)
  PROVE  Fits(pattern, text, p, t) <=> AllStars(pattern, p)
<1> DEFINE P == Len(pattern)
           T == Len(text)
<1>1. P \in Nat /\ T \in Nat /\ Before(text, t) = T
  BY DEF Before
<1>2. ASSUME Fits(pattern, text, p, t), NEW k \in p .. P, pattern[k] # "*" PROVE FALSE
  <2>1. PICK at \in Places(pattern, text, p) :
           at[p - 1] = T /\ \A j \in p .. P : Follows(pattern, text, at, j)
    BY <1>1, <1>2 DEF Fits
  <2>2. at \in [p - 1 .. P -> 0 .. T] /\ k - 1 \in p - 1 .. P /\ k \in p - 1 .. P
    BY <1>1, <1>2 DEF Places
  <2>3. at[p - 1] <= at[k - 1]
    BY <2>1, <2>2, PlacesRise
  <2>4. at[k] = at[k - 1] + 1
    BY <1>2, <2>1 DEF Follows
  <2>5. at[k] \in 0 .. T /\ at[k - 1] \in 0 .. T
    BY <2>2
  <2>6. QED
    BY <2>1, <2>3, <2>4, <2>5
<1>3. ASSUME AllStars(pattern, p) PROVE Fits(pattern, text, p, t)
  <2> DEFINE at == [k \in p - 1 .. P |-> T]
  <2>1. at \in Places(pattern, text, p)
    BY <1>1 DEF Places
  <2>2. at[p - 1] = T /\ at[P] = T
    BY <1>1
  <2>3. ASSUME NEW k \in p .. P PROVE Follows(pattern, text, at, k)
    <3>1. pattern[k] = "*"
      BY <1>3 DEF AllStars
    <3>2. at[k - 1] = T /\ at[k] = T
      BY <1>1
    <3>3. QED
      BY <1>1, <3>1, <3>2 DEF Follows
  <2> HIDE DEF at
  <2>4. QED
    BY <1>1, <2>1, <2>2, <2>3 DEF Fits
<1>4. QED
  BY <1>2, <1>3 DEF AllStars

\* The pattern is over: so is the text.
LEMMA FitsNothing ==
  ASSUME NEW pattern, NEW text, Len(pattern) \in Nat, Len(text) \in Nat,
         NEW t \in 1 .. Len(text)
  PROVE  ~ Fits(pattern, text, Len(pattern) + 1, t)
<1>1. Before(text, t) = t - 1
  BY DEF Before
<1>2. (Len(pattern) + 1) - 1 = Len(pattern)
  OBVIOUS
<1>3. QED
  BY <1>1, <1>2 DEF Fits

\* One place more in front of the others.
LEMMA Prepend ==
  ASSUME NEW pattern, NEW text, Len(pattern) \in Nat, Len(text) \in Nat,
         NEW p \in 1 .. Len(pattern), NEW t \in Nat \ {0}, NEW u \in Nat \ {0},
         Fits(pattern, text, p + 1, u),
         IF pattern[p] = "*" THEN t <= u
         ELSE t <= Len(text) /\ u = t + 1 /\ text[t] = pattern[p]
  PROVE  Fits(pattern, text, p, t)
<1> DEFINE P == Len(pattern)
           T == Len(text)
<1>1. P \in Nat /\ T \in Nat /\ (p + 1) - 1 = p /\ p \in 1 .. P
  OBVIOUS
<1>2. PICK at \in Places(pattern, text, p + 1) :
         /\ at[p] = Before(text, u) /\ at[P] = T
         /\ \A k \in p + 1 .. P : Follows(pattern, text, at, k)
  BY <1>1 DEF Fits
<1>3. at \in [p .. P -> 0 .. T]
  BY <1>1, <1>2 DEF Places
<1> DEFINE more == [k \in p - 1 .. P |-> IF k = p - 1 THEN Before(text, t) ELSE at[k]]
<1>4. Before(text, t) \in 0 .. T /\ Before(text, u) \in 0 .. T
  BY <1>1 DEF Before
<1>5. more \in Places(pattern, text, p)
  BY <1>1, <1>3, <1>4 DEF Places
<1>6. more[p - 1] = Before(text, t) /\ \A k \in p .. P : more[k] = at[k]
  BY <1>1
<1>7. more[P] = T
  BY <1>1, <1>2, <1>6
<1>8. ASSUME NEW k \in p .. P PROVE Follows(pattern, text, more, k)
  <2>1. CASE k = p
    <3>1. more[p - 1] = Before(text, t) /\ more[p] = Before(text, u)
      BY <1>1, <1>2, <1>6
    <3>2. CASE pattern[p] = "*"
      <4>1. Before(text, t) <= Before(text, u)
        BY <1>1, <3>2 DEF Before
      <4>2. QED
        BY <2>1, <3>1, <3>2, <4>1 DEF Follows
    <3>3. CASE pattern[p] # "*"
      <4>1. t <= T /\ u = t + 1 /\ text[t] = pattern[p]
        BY <3>3
      <4>2. Before(text, t) = t - 1 /\ Before(text, u) = t
        BY <1>1, <4>1 DEF Before
      <4>3. QED
        BY <2>1, <3>1, <3>3, <4>1, <4>2 DEF Follows
    <3>4. QED
      BY <3>2, <3>3
  <2>2. CASE k # p
    <3>1. k \in p + 1 .. P /\ k - 1 \in p .. P
      BY <1>1, <2>2
    <3>2. more[k] = at[k] /\ more[k - 1] = at[k - 1]
      BY <1>6, <3>1
    <3>3. Follows(pattern, text, at, k)
      BY <1>2, <3>1
    <3>4. QED
      BY <3>2, <3>3 DEF Follows
  <2>3. QED
    BY <2>1, <2>2
<1> HIDE DEF more
<1>9. QED
  BY <1>5, <1>6, <1>7, <1>8 DEF Fits

\* And without the first place.
LEMMA Remainder ==
  ASSUME NEW pattern, NEW text, Len(pattern) \in Nat, Len(text) \in Nat,
         NEW p \in 1 .. Len(pattern), NEW at \in Places(pattern, text, p),
         at[Len(pattern)] = Len(text),
         \A k \in p .. Len(pattern) : Follows(pattern, text, at, k)
  PROVE  at[p] \in 0 .. Len(text) /\ Fits(pattern, text, p + 1, at[p] + 1)
<1> DEFINE P == Len(pattern)
           T == Len(text)
           fewer == [k \in p .. P |-> at[k]]
<1>1. at \in [p - 1 .. P -> 0 .. T] /\ P \in Nat /\ T \in Nat /\ (p + 1) - 1 = p
  BY DEF Places
<1>2. at[p] \in 0 .. T
  BY <1>1
<1>3. fewer \in Places(pattern, text, p + 1)
  <2>1. \A k \in p .. P : at[k] \in 0 .. T
    BY <1>1
  <2>2. QED
    BY <1>1, <2>1 DEF Places
<1>4. \A k \in p .. P : fewer[k] = at[k]
  OBVIOUS
<1>5. fewer[p] = Before(text, at[p] + 1) /\ fewer[P] = T
  BY <1>1, <1>2 DEF Before
<1>6. ASSUME NEW k \in p + 1 .. P PROVE Follows(pattern, text, fewer, k)
  <2>1. k \in p .. P /\ k - 1 \in p .. P
    BY <1>1
  <2>2. fewer[k] = at[k] /\ fewer[k - 1] = at[k - 1]
    BY <1>4, <2>1
  <2>3. Follows(pattern, text, at, k)
    BY <2>1
  <2>4. QED
    BY <2>2, <2>3 DEF Follows
<1> HIDE DEF fewer
<1>7. QED
  BY <1>1, <1>2, <1>3, <1>5, <1>6 DEF Fits

\* A star takes any number of characters.
LEMMA FitsStar ==
  ASSUME NEW pattern, NEW text, Len(pattern) \in Nat, Len(text) \in Nat,
         NEW p \in 1 .. Len(pattern), NEW t \in Nat \ {0}, pattern[p] = "*"
  PROVE  Fits(pattern, text, p, t) <=> \E u \in Nat : t <= u /\ Fits(pattern, text, p + 1, u)
<1>1. ASSUME NEW u \in Nat, t <= u, Fits(pattern, text, p + 1, u)
      PROVE  Fits(pattern, text, p, t)
  <2>1. u \in Nat \ {0}
    BY <1>1
  <2>2. QED
    BY <1>1, <2>1, Prepend
<1>2. ASSUME Fits(pattern, text, p, t)
      PROVE  \E u \in Nat : t <= u /\ Fits(pattern, text, p + 1, u)
  <2>1. PICK at \in Places(pattern, text, p) :
          /\ at[p - 1] = Before(text, t) /\ at[Len(pattern)] = Len(text)
          /\ \A k \in p .. Len(pattern) : Follows(pattern, text, at, k)
    BY <1>2 DEF Fits
  <2>2. at[p] \in 0 .. Len(text) /\ Fits(pattern, text, p + 1, at[p] + 1)
    BY <2>1, Remainder
  <2>3. Before(text, t) <= at[p]
    BY <2>1 DEF Follows
  <2>4. CASE t - 1 <= Len(text)
    <3>1. t <= at[p] + 1
      BY <2>2, <2>3, <2>4 DEF Before
    <3>2. at[p] + 1 \in Nat
      BY <2>2
    <3>3. QED
      BY <2>2, <3>1, <3>2
  <2>5. CASE ~ (t - 1 <= Len(text))
    <3>1. at[p] = Len(text) /\ Before(text, t) = Len(text)
      BY <2>2, <2>3, <2>5 DEF Before
    <3>2. Before(text, at[p] + 1) = Len(text) /\ (p + 1) - 1 = p
      BY <3>1 DEF Before
    <3>3. Fits(pattern, text, p + 1, t)
      BY <2>2, <3>1, <3>2 DEF Fits
    <3>4. QED
      BY <3>3
  <2>6. QED
    BY <2>4, <2>5
<1>3. QED
  BY <1>1, <1>2

\* Any other character takes itself.
LEMMA FitsCharacter ==
  ASSUME NEW pattern, NEW text, Len(pattern) \in Nat, Len(text) \in Nat,
         NEW p \in 1 .. Len(pattern), NEW t \in Nat \ {0}, pattern[p] # "*"
  PROVE  Fits(pattern, text, p, t)
           <=> t <= Len(text) /\ text[t] = pattern[p] /\ Fits(pattern, text, p + 1, t + 1)
<1>1. ASSUME t <= Len(text), text[t] = pattern[p], Fits(pattern, text, p + 1, t + 1)
      PROVE  Fits(pattern, text, p, t)
  <2>1. t + 1 \in Nat \ {0}
    OBVIOUS
  <2>2. QED
    BY <1>1, <2>1, Prepend
<1>2. ASSUME Fits(pattern, text, p, t)
      PROVE  t <= Len(text) /\ text[t] = pattern[p] /\ Fits(pattern, text, p + 1, t + 1)
  <2>1. PICK at \in Places(pattern, text, p) :
          /\ at[p - 1] = Before(text, t) /\ at[Len(pattern)] = Len(text)
          /\ \A k \in p .. Len(pattern) : Follows(pattern, text, at, k)
    BY <1>2 DEF Fits
  <2>2. at[p] \in 0 .. Len(text) /\ Fits(pattern, text, p + 1, at[p] + 1)
    BY <2>1, Remainder
  <2>3. at[p] = Before(text, t) + 1 /\ text[at[p]] = pattern[p]
    BY <2>1 DEF Follows
  <2>4. t <= Len(text) /\ at[p] = t
    BY <2>2, <2>3 DEF Before
  <2>5. QED
    BY <2>2, <2>3, <2>4
<1>3. QED
  BY <1>1, <1>2

-----------------------------------------------------------------------------
(* The characters up to the next star, or mismatch.                        *)

\* The loop goes on with the next character of both.
Goes(pattern, text, p, t) ==
  t <= Len(text) /\ p <= Len(pattern) /\ pattern[p] # "*" /\ pattern[p] = text[t]

\* So it does n times, from p and t on.
GoesOn(pattern, text, p, t, n) == \A i \in 0 .. n - 1 : Goes(pattern, text, p + i, t + i)
Stretch(pattern, text, p, t, n) ==
  GoesOn(pattern, text, p, t, n) /\ ~ Goes(pattern, text, p + n, t + n)

\* And no more often than there are characters.
LEMMA StretchExists ==
  ASSUME NEW pattern, NEW text, Len(pattern) \in Nat, Len(text) \in Nat,
         NEW p \in 1 .. Len(pattern) + 1, NEW t \in Nat \ {0}
  PROVE  \E n \in Nat : Stretch(pattern, text, p, t, n) /\ p + n \in 1 .. Len(pattern) + 1
<1> DEFINE stops == {n \in Nat : ~ Goes(pattern, text, p + n, t + n)}
<1>1. Len(text) \in stops
  BY DEF Goes
<1>2. stops \in SUBSET Nat /\ stops # {}
  BY <1>1
<1>3. PICK n \in stops : \A m \in stops : n <= m
  BY <1>2, Smallest
<1>4. \A i \in 0 .. n - 1 : Goes(pattern, text, p + i, t + i)
  <2>1. ASSUME NEW i \in 0 .. n - 1 PROVE Goes(pattern, text, p + i, t + i)
    <3>1. i \in Nat /\ n \in Nat /\ ~ (n <= i)
      OBVIOUS
    <3>2. i \notin stops
      BY <1>3, <3>1
    <3>3. QED
      BY <3>1, <3>2
  <2>2. QED
    BY <2>1
<1>5. p + n <= Len(pattern) + 1
  <2>1. CASE n = 0
    BY <2>1
  <2>2. CASE n # 0
    <3>1. n - 1 \in 0 .. n - 1
      BY <1>3, <2>2
    <3>2. p + (n - 1) <= Len(pattern)
      BY <1>4, <3>1 DEF Goes
    <3>3. QED
      BY <3>1, <3>2
  <2>3. QED
    BY <2>1, <2>2
<1>6. n \in Nat /\ p + n \in 1 .. Len(pattern) + 1 /\ ~ Goes(pattern, text, p + n, t + n)
  BY <1>3, <1>5
<1>7. Stretch(pattern, text, p, t, n)
  BY <1>4, <1>6 DEF Stretch, GoesOn
<1>8. QED
  BY <1>6, <1>7

LEMMA StretchUnique ==
  ASSUME NEW pattern, NEW text, NEW p, NEW t, NEW n \in Nat, NEW m \in Nat,
         Stretch(pattern, text, p, t, n), Stretch(pattern, text, p, t, m)
  PROVE  n = m
<1>1. ~ (n < m)
  BY DEF Stretch, GoesOn
<1>2. ~ (m < n)
  BY DEF Stretch, GoesOn
<1>3. QED
  BY <1>1, <1>2

\* A stretch begins with its first character.
LEMMA StretchShorter ==
  ASSUME NEW pattern, NEW text, NEW p \in Nat, NEW t \in Nat, NEW n \in Nat,
         Goes(pattern, text, p, t), Stretch(pattern, text, p + 1, t + 1, n)
  PROVE  Stretch(pattern, text, p, t, n + 1)
<1>1. (p + 1) + n = p + (n + 1) /\ (t + 1) + n = t + (n + 1)
  OBVIOUS
<1>2. ASSUME NEW i \in 0 .. (n + 1) - 1 PROVE Goes(pattern, text, p + i, t + i)
  <2>1. CASE i = 0
    BY <2>1
  <2>2. CASE i # 0
    <3>1. i - 1 \in 0 .. n - 1 /\ (p + 1) + (i - 1) = p + i /\ (t + 1) + (i - 1) = t + i
      BY <2>2
    <3>2. Goes(pattern, text, (p + 1) + (i - 1), (t + 1) + (i - 1))
      BY <3>1, Zenon DEF Stretch, GoesOn
    <3>3. QED
      BY <3>1, <3>2
  <2>3. QED
    BY <2>1, <2>2
<1>3. ~ Goes(pattern, text, p + (n + 1), t + (n + 1))
  BY <1>1, Zenon DEF Stretch
<1>4. QED
  BY <1>2, <1>3, Zenon DEF Stretch, GoesOn

\* What fits in front of a stretch fits behind it, at any place further on.
LEMMA FitsBehind ==
  ASSUME NEW pattern, NEW text, Len(pattern) \in Nat, Len(text) \in Nat,
         NEW p \in 1 .. Len(pattern) + 1, NEW t \in Nat \ {0}, NEW n \in Nat,
         GoesOn(pattern, text, p, t, n), p + n \in 1 .. Len(pattern) + 1,
         NEW u \in Nat \ {0}, Fits(pattern, text, p, u)
  PROVE  Fits(pattern, text, p + n, u + n)
<1> DEFINE fails == {i \in 0 .. n : ~ Fits(pattern, text, p + i, u + i)}
<1>1. SUFFICES ASSUME fails # {} PROVE FALSE
  <2>1. n \in 0 .. n
    OBVIOUS
  <2>2. QED
    BY <2>1
<1>2. fails \in SUBSET Nat
  OBVIOUS
<1>3. PICK i \in fails : \A j \in fails : i <= j
  BY <1>1, <1>2, Smallest
<1>4. i # 0
  <2>1. p + 0 = p /\ u + 0 = u
    OBVIOUS
  <2>2. QED
    BY <1>3, <2>1
<1>5. i \in 1 .. n /\ i - 1 \in 0 .. n - 1 /\ ~ (i <= i - 1)
  BY <1>3, <1>4
<1>6. Fits(pattern, text, p + (i - 1), u + (i - 1))
  <2>1. i - 1 \notin fails
    BY <1>3, <1>5
  <2>2. i - 1 \in 0 .. n
    BY <1>5
  <2>3. QED
    BY <2>1, <2>2
<1>7. Goes(pattern, text, p + (i - 1), t + (i - 1))
  BY <1>5 DEF GoesOn
<1>8. p + (i - 1) \in 1 .. Len(pattern) /\ u + (i - 1) \in Nat \ {0}
  BY <1>5, <1>7 DEF Goes
<1>9. Fits(pattern, text, (p + (i - 1)) + 1, (u + (i - 1)) + 1)
  BY <1>6, <1>7, <1>8, FitsCharacter DEF Goes
<1>10. (p + (i - 1)) + 1 = p + i /\ (u + (i - 1)) + 1 = u + i
  BY <1>5
<1>11. QED
  BY <1>3, <1>9, <1>10

\* And what fits behind it at its own place fits in front of it.
LEMMA FitsAhead ==
  ASSUME NEW pattern, NEW text, Len(pattern) \in Nat, Len(text) \in Nat,
         NEW p \in 1 .. Len(pattern) + 1, NEW t \in Nat \ {0}, NEW n \in Nat,
         GoesOn(pattern, text, p, t, n), p + n \in 1 .. Len(pattern) + 1,
         Fits(pattern, text, p + n, t + n)
  PROVE  Fits(pattern, text, p, t)
<1> DEFINE fails == {i \in 0 .. n : ~ Fits(pattern, text, p + (n - i), t + (n - i))}
<1>1. SUFFICES ASSUME fails # {} PROVE FALSE
  <2>1. n \in 0 .. n /\ p + (n - n) = p /\ t + (n - n) = t
    OBVIOUS
  <2>2. QED
    BY <2>1
<1>2. fails \in SUBSET Nat
  OBVIOUS
<1>3. PICK i \in fails : \A j \in fails : i <= j
  BY <1>1, <1>2, Smallest
<1>4. i # 0
  <2>1. p + (n - 0) = p + n /\ t + (n - 0) = t + n
    OBVIOUS
  <2>2. QED
    BY <1>3, <2>1
<1>5. i \in 1 .. n /\ i - 1 \in 0 .. n /\ ~ (i <= i - 1) /\ n - i \in 0 .. n - 1
  BY <1>3, <1>4
<1>6. Fits(pattern, text, p + (n - (i - 1)), t + (n - (i - 1)))
  <2>1. i - 1 \notin fails
    BY <1>3, <1>5
  <2>2. QED
    BY <1>5, <2>1
<1>7. Goes(pattern, text, p + (n - i), t + (n - i))
  BY <1>5 DEF GoesOn
<1>8. p + (n - i) \in 1 .. Len(pattern) /\ t + (n - i) \in Nat \ {0}
  BY <1>5, <1>7 DEF Goes
<1>9. p + (n - (i - 1)) = (p + (n - i)) + 1 /\ t + (n - (i - 1)) = (t + (n - i)) + 1
  BY <1>5
<1>10. Fits(pattern, text, p + (n - i), t + (n - i))
  BY <1>6, <1>7, <1>8, <1>9, FitsCharacter DEF Goes
<1>11. QED
  BY <1>3, <1>10

-----------------------------------------------------------------------------
(* The loop of wildcard_match().                                           *)

LoopStates(pattern) ==
  [p : 1 .. Len(pattern) + 1, t : Nat \ {0}, star_p : 0 .. Len(pattern) + 1, star_t : Nat]

Begin == [p |-> 1, t |-> 1, star_p |-> 0, star_t |-> 0]
AfterStar(s) == [p |-> s.p + 1, t |-> s.t, star_p |-> s.p + 1, star_t |-> s.t]
AfterCharacter(s) == [s EXCEPT !.p = @ + 1, !.t = @ + 1]
AfterMiss(s) == [s EXCEPT !.p = s.star_p, !.t = s.star_t + 1, !.star_t = @ + 1]

\* A turn of the loop, where "loop" says what the later ones return.
Turn(loop, s, pattern, text) ==
  CASE s.t > Len(text) -> AllStars(pattern, s.p)
    [] s.t <= Len(text) /\ s.p <= Len(pattern) /\ pattern[s.p] = "*" -> loop[AfterStar(s)]
    [] s.t <= Len(text) /\ s.p <= Len(pattern) /\ pattern[s.p] # "*" /\ pattern[s.p] = text[s.t] ->
         loop[AfterCharacter(s)]
    [] OTHER -> s.star_p # 0 /\ loop[AfterMiss(s)]

IsLoop(loop, pattern, text) ==
  loop = [s \in LoopStates(pattern) |-> Turn(loop, s, pattern, text)]

\* The function that wildcard_match() stands for is one of those with this property, if
\* there are any.
LEMMA LoopIsPicked ==
  ASSUME NEW pattern, NEW text, NEW g, IsLoop(g, pattern, text)
  PROVE  \E loop : IsLoop(loop, pattern, text) /\ WildcardMatch(pattern, text) = loop[Begin]
BY DEF WildcardMatch, IsLoop, LoopStates, Turn, AllStars, Begin, AfterStar, AfterCharacter, AfterMiss

\* The four ways a turn can go.
AtEnd(s, text) == s.t > Len(text)
AtStar(s, pattern, text) == s.t <= Len(text) /\ s.p <= Len(pattern) /\ pattern[s.p] = "*"
AtMiss(s, pattern, text) ==
  ~ AtEnd(s, text) /\ ~ AtStar(s, pattern, text) /\ ~ Goes(pattern, text, s.p, s.t)

LEMMA TurnCases ==
  ASSUME NEW pattern, NEW text, Len(pattern) \in Nat, Len(text) \in Nat, NEW loop,
         NEW s \in LoopStates(pattern)
  PROVE  /\ AtEnd(s, text) => Turn(loop, s, pattern, text) = AllStars(pattern, s.p)
         /\ AtStar(s, pattern, text) => Turn(loop, s, pattern, text) = loop[AfterStar(s)]
         /\ Goes(pattern, text, s.p, s.t) => Turn(loop, s, pattern, text) = loop[AfterCharacter(s)]
         /\ AtMiss(s, pattern, text) =>
              Turn(loop, s, pattern, text) = (s.star_p # 0 /\ loop[AfterMiss(s)])
<1>1. (s.t > Len(text)) <=> ~ (s.t <= Len(text))
  BY DEF LoopStates
<1>2. ASSUME AtEnd(s, text) PROVE Turn(loop, s, pattern, text) = AllStars(pattern, s.p)
  BY <1>1, <1>2, Zenon DEF Turn, AtEnd
<1>3. ASSUME AtStar(s, pattern, text) PROVE Turn(loop, s, pattern, text) = loop[AfterStar(s)]
  BY <1>1, <1>3, Zenon DEF Turn, AtStar
<1>4. ASSUME Goes(pattern, text, s.p, s.t)
      PROVE  Turn(loop, s, pattern, text) = loop[AfterCharacter(s)]
  BY <1>1, <1>4, Zenon DEF Turn, Goes
<1>5. ASSUME AtMiss(s, pattern, text)
      PROVE  Turn(loop, s, pattern, text) = (s.star_p # 0 /\ loop[AfterMiss(s)])
  BY <1>1, <1>5, Zenon DEF Turn, AtMiss, AtEnd, AtStar, Goes
<1>6. QED
  BY <1>2, <1>3, <1>4, <1>5

\* Each way leads to a state of the loop.
LEMMA TurnStates ==
  ASSUME NEW pattern, NEW text, Len(pattern) \in Nat, Len(text) \in Nat,
         NEW s \in LoopStates(pattern)
  PROVE  /\ AtStar(s, pattern, text) => AfterStar(s) \in LoopStates(pattern)
         /\ Goes(pattern, text, s.p, s.t) => AfterCharacter(s) \in LoopStates(pattern)
         /\ s.star_p # 0 => AfterMiss(s) \in LoopStates(pattern)
<1>1. ASSUME AtStar(s, pattern, text) PROVE AfterStar(s) \in LoopStates(pattern)
  BY <1>1 DEF AtStar, AfterStar, LoopStates
<1>2. ASSUME Goes(pattern, text, s.p, s.t) PROVE AfterCharacter(s) \in LoopStates(pattern)
  <2>1. s.p + 1 \in 1 .. Len(pattern) + 1 /\ s.t + 1 \in Nat \ {0}
    BY <1>2 DEF Goes, LoopStates
  <2>2. QED
    BY <2>1 DEF AfterCharacter, LoopStates
<1>3. ASSUME s.star_p # 0 PROVE AfterMiss(s) \in LoopStates(pattern)
  <2>1. s.star_p \in 1 .. Len(pattern) + 1 /\ s.star_t + 1 \in Nat \ {0} /\ s.star_t + 1 \in Nat
    BY <1>3 DEF LoopStates
  <2>2. QED
    BY <2>1 DEF AfterMiss, LoopStates
<1>4. QED
  BY <1>1, <1>2, <1>3

\* What the loop returns where a stretch has ended at p and t.
Verdict(pattern, text, p, t, star_p, star_t) ==
  IF t > Len(text) THEN AllStars(pattern, p)
  ELSE IF p <= Len(pattern) /\ pattern[p] = "*" THEN Fits(pattern, text, p, t)
  ELSE star_p # 0 /\ \E u \in Nat : star_t < u /\ Fits(pattern, text, star_p, u)

\* What it returns from a state.
Outcome(pattern, text, s) ==
  \E n \in Nat :
    /\ Stretch(pattern, text, s.p, s.t, n)
    /\ Verdict(pattern, text, s.p + n, s.t + n, s.star_p, s.star_t)

\* The end of a stretch decides.
LEMMA OutcomeIsVerdict ==
  ASSUME NEW pattern, NEW text, NEW s, NEW n \in Nat, Stretch(pattern, text, s.p, s.t, n)
  PROVE  Outcome(pattern, text, s)
           <=> Verdict(pattern, text, s.p + n, s.t + n, s.star_p, s.star_t)
<1>1. ASSUME NEW m \in Nat, Stretch(pattern, text, s.p, s.t, m) PROVE m = n
  BY <1>1, StretchUnique
<1>2. QED
  BY <1>1, Zenon DEF Outcome

\* Where nothing goes on, that is at once.
LEMMA OutcomeAtOnce ==
  ASSUME NEW pattern, NEW text, NEW s \in LoopStates(pattern), Len(pattern) \in Nat,
         ~ Goes(pattern, text, s.p, s.t)
  PROVE  Outcome(pattern, text, s) <=> Verdict(pattern, text, s.p, s.t, s.star_p, s.star_t)
<1>1. s.p + 0 = s.p /\ s.t + 0 = s.t
  BY DEF LoopStates
<1>2. Stretch(pattern, text, s.p, s.t, 0)
  BY <1>1 DEF Stretch, GoesOn
<1>3. QED
  BY <1>1, <1>2, OutcomeIsVerdict

\* Right behind a star, with nothing matched since, the loop finds every place from there
\* on: as the greedy stretch ends at a star or at the end, no later place is better, and if it
\* ends at a mismatch it was the wrong place.
LEMMA Restart ==
  ASSUME NEW pattern, NEW text, Len(pattern) \in Nat, Len(text) \in Nat,
         NEW s \in LoopStates(pattern), s.star_p = s.p, s.star_t = s.t
  PROVE  Outcome(pattern, text, s) <=> \E u \in Nat : s.t <= u /\ Fits(pattern, text, s.p, u)
<1> DEFINE P == Len(pattern)
           T == Len(text)
           p == s.p
           t == s.t
<1>1. p \in 1 .. P + 1 /\ t \in Nat \ {0} /\ P \in Nat /\ T \in Nat
  BY DEF LoopStates
<1>2. s.star_p # 0
  BY <1>1
<1> HIDE DEF p, t
<1>3. PICK n \in Nat : Stretch(pattern, text, p, t, n) /\ p + n \in 1 .. P + 1
  BY <1>1, StretchExists
<1>4. Outcome(pattern, text, s) <=> Verdict(pattern, text, p + n, t + n, p, t)
  BY <1>3, OutcomeIsVerdict DEF p, t
<1>5. GoesOn(pattern, text, p, t, n) /\ ~ Goes(pattern, text, p + n, t + n)
  BY <1>3 DEF Stretch
<1>6. t + n \in Nat \ {0}
  BY <1>1
<1>7. ASSUME Fits(pattern, text, p + n, t + n)
      PROVE  \E u \in Nat : t <= u /\ Fits(pattern, text, p, u)
  <2>1. Fits(pattern, text, p, t)
    BY <1>1, <1>3, <1>5, <1>7, FitsAhead
  <2>2. t <= t /\ t \in Nat
    BY <1>1
  <2>3. QED
    BY <2>1, <2>2
<1>8. ASSUME NEW u \in Nat, t <= u, Fits(pattern, text, p, u)
      PROVE  Fits(pattern, text, p + n, u + n) /\ t + n <= u + n /\ u + n \in Nat \ {0}
  <2>1. u \in Nat \ {0} /\ t + n <= u + n /\ u + n \in Nat \ {0}
    BY <1>1, <1>8
  <2>2. QED
    BY <1>1, <1>3, <1>5, <1>8, <2>1, FitsBehind
<1>9. CASE t + n > T
  <2>1. Outcome(pattern, text, s) <=> AllStars(pattern, p + n)
    BY <1>4, <1>9 DEF Verdict
  <2>2. AllStars(pattern, p + n) <=> Fits(pattern, text, p + n, t + n)
    BY <1>3, <1>6, <1>9, FitsEnd
  <2>3. ASSUME NEW u \in Nat, t <= u, Fits(pattern, text, p, u) PROVE AllStars(pattern, p + n)
    <3>1. Fits(pattern, text, p + n, u + n) /\ u + n \in Nat /\ u + n > T
      BY <1>1, <1>6, <1>8, <1>9, <2>3
    <3>2. QED
      BY <1>3, <3>1, FitsEnd
  <2>4. QED
    BY <1>7, <2>1, <2>2, <2>3 DEF p, t
<1>10. CASE ~ (t + n > T) /\ p + n <= P /\ pattern[p + n] = "*"
  <2>1. Outcome(pattern, text, s) <=> Fits(pattern, text, p + n, t + n)
    BY <1>4, <1>10 DEF Verdict
  <2>2. ASSUME NEW u \in Nat, t <= u, Fits(pattern, text, p, u)
        PROVE  Fits(pattern, text, p + n, t + n)
    <3>1. Fits(pattern, text, p + n, u + n) /\ t + n <= u + n /\ u + n \in Nat \ {0}
      BY <1>8, <2>2
    <3>2. p + n \in 1 .. P
      BY <1>3, <1>10
    <3>3. PICK v \in Nat : u + n <= v /\ Fits(pattern, text, (p + n) + 1, v)
      BY <1>10, <3>1, <3>2, FitsStar
    <3>4. t + n <= v
      BY <1>6, <3>1, <3>3
    <3>5. QED
      BY <1>6, <1>10, <3>2, <3>3, <3>4, FitsStar
  <2>3. QED
    BY <1>7, <2>1, <2>2 DEF p, t
<1>11. CASE ~ (t + n > T) /\ ~ (p + n <= P /\ pattern[p + n] = "*")
  <2>1. Outcome(pattern, text, s) <=> \E u \in Nat : t < u /\ Fits(pattern, text, p, u)
    BY <1>2, <1>4, <1>11 DEF Verdict, p, t
  <2>2. ~ Fits(pattern, text, p + n, t + n)
    <3>1. t + n \in 1 .. T
      BY <1>1, <1>6, <1>11
    <3>2. CASE p + n = P + 1
      BY <3>1, <3>2, FitsNothing
    <3>3. CASE p + n # P + 1
      <4>1. p + n \in 1 .. P /\ pattern[p + n] # "*"
        BY <1>1, <1>3, <1>11, <3>3
      <4>2. pattern[p + n] # text[t + n]
        BY <1>5, <3>1, <4>1 DEF Goes
      <4>3. QED
        BY <1>6, <4>1, <4>2, FitsCharacter
    <3>4. QED
      BY <3>2, <3>3
  <2>3. ~ Fits(pattern, text, p, t)
    <3>1. t \in Nat /\ t <= t
      BY <1>1
    <3>2. QED
      BY <1>1, <1>3, <1>5, <2>2, FitsBehind
  <2>4. \A u \in Nat : t < u <=> (t <= u /\ u # t)
    BY <1>1
  <2>5. (\E u \in Nat : t < u /\ Fits(pattern, text, p, u))
          <=> \E u \in Nat : t <= u /\ Fits(pattern, text, p, u)
    BY <2>3, <2>4
  <2>6. QED
    BY <2>1, <2>5 DEF p, t
<1>12. QED
  BY <1>9, <1>10, <1>11

\* These outcomes are what the turns of the loop amount to.
LEMMA OutcomesAreLoop ==
  ASSUME NEW pattern, NEW text, Len(pattern) \in Nat, Len(text) \in Nat
  PROVE  IsLoop([s \in LoopStates(pattern) |-> Outcome(pattern, text, s)], pattern, text)
<1> DEFINE g == [s \in LoopStates(pattern) |-> Outcome(pattern, text, s)]
<1>1. ASSUME NEW s \in LoopStates(pattern) PROVE g[s] = Outcome(pattern, text, s)
  OBVIOUS
<1> HIDE DEF g
<1>2. ASSUME NEW s \in LoopStates(pattern) PROVE Outcome(pattern, text, s) = Turn(g, s, pattern, text)
  <2>1. s.p \in 1 .. Len(pattern) + 1 /\ s.t \in Nat \ {0} /\ s.star_t \in Nat
        /\ s.star_p \in 0 .. Len(pattern) + 1
    BY DEF LoopStates
  <2>2. CASE AtEnd(s, text)
    <3>1. ~ Goes(pattern, text, s.p, s.t)
      BY <2>1, <2>2 DEF AtEnd, Goes
    <3>2. Outcome(pattern, text, s) <=> AllStars(pattern, s.p)
      BY <2>2, <3>1, OutcomeAtOnce DEF Verdict, AtEnd
    <3>3. QED
      BY <2>2, <3>2, TurnCases, ZenonT(30) DEF Outcome, AllStars
  <2>3. CASE AtStar(s, pattern, text)
    <3> DEFINE r == AfterStar(s)
    <3>1. r \in LoopStates(pattern) /\ r.star_p = r.p /\ r.star_t = r.t
          /\ r.p = s.p + 1 /\ r.t = s.t
      BY <2>3, TurnStates DEF AfterStar
    <3> HIDE DEF r
    <3>2. Outcome(pattern, text, r) <=> \E u \in Nat : s.t <= u /\ Fits(pattern, text, s.p + 1, u)
      BY <3>1, Restart
    <3>3. ~ Goes(pattern, text, s.p, s.t) /\ s.p \in 1 .. Len(pattern) /\ pattern[s.p] = "*"
          /\ ~ (s.t > Len(text))
      BY <2>1, <2>3 DEF AtStar, Goes
    <3>4. Outcome(pattern, text, s) <=> Fits(pattern, text, s.p, s.t)
      BY <3>3, OutcomeAtOnce DEF Verdict
    <3>5. Fits(pattern, text, s.p, s.t) <=> \E u \in Nat : s.t <= u /\ Fits(pattern, text, s.p + 1, u)
      BY <2>1, <3>3, FitsStar
    <3>6. Outcome(pattern, text, s) = Outcome(pattern, text, r)
      BY <3>2, <3>4, <3>5, Zenon DEF Outcome
    <3>7. Turn(g, s, pattern, text) = g[r]
      BY <2>3, TurnCases DEF r
    <3>8. QED
      BY <1>1, <3>1, <3>6, <3>7
  <2>4. CASE Goes(pattern, text, s.p, s.t)
    <3> DEFINE r == AfterCharacter(s)
    <3>1. r \in LoopStates(pattern) /\ r.star_p = s.star_p /\ r.star_t = s.star_t
          /\ r.p = s.p + 1 /\ r.t = s.t + 1
      BY <2>4, TurnStates DEF AfterCharacter, LoopStates
    <3> HIDE DEF r
    <3>2. r.p \in 1 .. Len(pattern) + 1 /\ r.t \in Nat \ {0}
      BY <3>1 DEF LoopStates
    <3>3. PICK n \in Nat : Stretch(pattern, text, r.p, r.t, n)
      BY <3>2, StretchExists
    <3>4. Stretch(pattern, text, s.p, s.t, n + 1)
      BY <2>1, <2>4, <3>1, <3>3, StretchShorter
    <3>5. s.p + (n + 1) = r.p + n /\ s.t + (n + 1) = r.t + n /\ n + 1 \in Nat
      <4>1. \A a, b \in Nat : b = a + 1 => a + (n + 1) = b + n
        OBVIOUS
      <4>2. s.p \in Nat /\ s.t \in Nat /\ r.p \in Nat /\ r.t \in Nat
        BY <2>1, <3>2
      <4>3. s.p + (n + 1) = r.p + n
        BY <3>1, <4>1, <4>2, Zenon
      <4>4. s.t + (n + 1) = r.t + n
        BY <3>1, <4>1, <4>2, Zenon
      <4>5. QED
        BY <4>3, <4>4
    <3>6. Outcome(pattern, text, r) <=> Verdict(pattern, text, r.p + n, r.t + n, r.star_p, r.star_t)
      BY <3>3, OutcomeIsVerdict
    <3>7. Outcome(pattern, text, s)
            <=> Verdict(pattern, text, s.p + (n + 1), s.t + (n + 1), s.star_p, s.star_t)
      BY <3>4, <3>5, OutcomeIsVerdict
    <3>8. Outcome(pattern, text, s) = Outcome(pattern, text, r)
      BY <3>1, <3>5, <3>6, <3>7, Zenon DEF Outcome
    <3>9. Turn(g, s, pattern, text) = g[r]
      BY <2>4, TurnCases DEF r
    <3>10. QED
      BY <1>1, <3>1, <3>8, <3>9
  <2>5. CASE AtMiss(s, pattern, text)
    <3>1. ~ Goes(pattern, text, s.p, s.t) /\ ~ (s.t > Len(text))
          /\ ~ (s.p <= Len(pattern) /\ pattern[s.p] = "*")
      BY <2>1, <2>5 DEF AtMiss, AtEnd, AtStar
    <3>2. Outcome(pattern, text, s)
            <=> s.star_p # 0 /\ \E u \in Nat : s.star_t < u /\ Fits(pattern, text, s.star_p, u)
      BY <3>1, OutcomeAtOnce DEF Verdict
    <3>3. Turn(g, s, pattern, text) = (s.star_p # 0 /\ g[AfterMiss(s)])
      BY <2>5, TurnCases
    <3>4. CASE s.star_p = 0
      <4>1. ~ Outcome(pattern, text, s)
        BY <3>2, <3>4
      <4>2. QED
        BY <3>3, <3>4, <4>1, Zenon DEF Outcome
    <3>5. CASE s.star_p # 0
      <4> DEFINE r == AfterMiss(s)
      <4>1. r \in LoopStates(pattern) /\ r.star_p = r.p /\ r.star_t = r.t
            /\ r.p = s.star_p /\ r.t = s.star_t + 1
        BY <3>5, TurnStates DEF AfterMiss, LoopStates
      <4> HIDE DEF r
      <4>2. Outcome(pattern, text, r)
              <=> \E u \in Nat : s.star_t + 1 <= u /\ Fits(pattern, text, s.star_p, u)
        BY <4>1, Restart
      <4>3. \A u \in Nat : s.star_t + 1 <= u <=> s.star_t < u
        BY <2>1
      <4>4. Outcome(pattern, text, s) = Outcome(pattern, text, r)
        BY <3>2, <3>5, <4>2, <4>3, Zenon DEF Outcome
      <4>5. g[r] = Outcome(pattern, text, r) /\ Turn(g, s, pattern, text) = (s.star_p # 0 /\ g[r])
        BY <1>1, <3>3, <4>1 DEF r
      <4>6. Turn(g, s, pattern, text) = Outcome(pattern, text, r)
        BY <3>5, <4>5, Zenon DEF Outcome
      <4>7. QED
        BY <4>4, <4>6
    <3>6. QED
      BY <3>4, <3>5
  <2>6. QED
    BY <2>2, <2>3, <2>4, <2>5 DEF AtMiss
<1>3. g = [s \in LoopStates(pattern) |-> Turn(g, s, pattern, text)]
  BY <1>2 DEF g
<1>4. QED
  BY <1>3 DEF IsLoop, g

\* Any two such functions agree where the loop can be: a later star, a later place to go
\* back to, or a later place in the pattern come only so often.
LEMMA LoopsAgree ==
  ASSUME NEW pattern, NEW text, Len(pattern) \in Nat, Len(text) \in Nat,
         NEW f, IsLoop(f, pattern, text), NEW g, IsLoop(g, pattern, text)
  PROVE  \A s \in LoopStates(pattern) : s.star_p <= s.p /\ s.star_t <= s.t => f[s] = g[s]
<1> DEFINE P == Len(pattern)
           T == Len(text)
           States == LoopStates(pattern)
           bad == {s \in States : s.star_p <= s.p /\ s.star_t <= s.t /\ f[s] # g[s]}
           stars == {P + 1 - s.star_p : s \in bad}
<1>1. P \in Nat /\ T \in Nat
  OBVIOUS
<1>2. \A s \in States : s.p \in 1 .. P + 1 /\ s.t \in Nat \ {0} /\ s.star_t \in Nat /\ s.star_p \in 0 .. P + 1
  BY DEF LoopStates
<1>3. ASSUME NEW s \in States
      PROVE  f[s] = Turn(f, s, pattern, text) /\ g[s] = Turn(g, s, pattern, text)
  BY <1>3, Zenon DEF IsLoop
<1>4. \A s \in bad : s.t <= T
  <2> SUFFICES ASSUME NEW s \in bad, ~ (s.t <= T) PROVE FALSE
    OBVIOUS
  <2>1. AtEnd(s, text)
    BY <1>1, <1>2 DEF AtEnd
  <2>2. f[s] = AllStars(pattern, s.p) /\ g[s] = AllStars(pattern, s.p)
    BY <1>3, <2>1, TurnCases
  <2>3. QED
    BY <2>2
<1>5. SUFFICES ASSUME bad # {} PROVE FALSE
  OBVIOUS
<1>6. stars \in SUBSET Nat /\ stars # {}
  <2>1. \A s \in bad : P + 1 - s.star_p \in Nat
    BY <1>1, <1>2
  <2>2. QED
    BY <1>5, <2>1
<1>7. PICK a \in stars : \A b \in stars : a <= b
  BY <1>6, Smallest
<1> DEFINE bad1 == {s \in bad : P + 1 - s.star_p = a}
           back == {T - s.star_t : s \in bad1}
<1>8. back \in SUBSET Nat /\ back # {}
  <2>1. \A s \in bad : T - s.star_t \in Nat
    BY <1>1, <1>2, <1>4
  <2>2. bad1 # {}
    BY <1>7
  <2>3. QED
    BY <2>1, <2>2
<1>9. PICK c \in back : \A b \in back : c <= b
  BY <1>8, Smallest
<1> DEFINE bad2 == {s \in bad1 : T - s.star_t = c}
           ahead == {P + 1 - s.p : s \in bad2}
<1>10. ahead \in SUBSET Nat /\ ahead # {}
  <2>1. \A x \in 1 .. P + 1 : P + 1 - x \in Nat
    BY <1>1
  <2>2. \A s \in bad : P + 1 - s.p \in Nat
    BY <1>2, <2>1
  <2>3. bad2 # {}
    BY <1>9
  <2>4. QED
    BY <2>2, <2>3
<1>11. PICK d \in ahead : \A b \in ahead : d <= b
  BY <1>10, Smallest
<1>12. PICK s \in bad2 : P + 1 - s.p = d
  BY <1>11
<1>13. /\ s \in States /\ s.star_p <= s.p /\ s.star_t <= s.t /\ f[s] # g[s] /\ s.t <= T
       /\ P + 1 - s.star_p = a /\ T - s.star_t = c
       /\ s.p \in 1 .. P + 1 /\ s.t \in Nat \ {0} /\ s.star_t \in Nat /\ s.star_p \in 0 .. P + 1
  BY <1>2, <1>4, <1>12
<1>14. ASSUME NEW r \in States, r.star_p <= r.p, r.star_t <= r.t, f[r] # g[r]
       PROVE  /\ a <= P + 1 - r.star_p
              /\ r.star_p = s.star_p => c <= T - r.star_t
              /\ r.star_p = s.star_p /\ r.star_t = s.star_t => d <= P + 1 - r.p
  <2>1. r \in bad
    BY <1>14
  <2>2. a <= P + 1 - r.star_p
    BY <1>7, <2>1
  <2>3. ASSUME r.star_p = s.star_p PROVE r \in bad1 /\ c <= T - r.star_t
    BY <1>9, <1>13, <2>1, <2>3
  <2>4. ASSUME r.star_p = s.star_p, r.star_t = s.star_t PROVE d <= P + 1 - r.p
    <3>1. r \in bad2
      BY <1>13, <2>3, <2>4
    <3>2. QED
      BY <1>11, <3>1
  <2>5. QED
    BY <2>2, <2>3, <2>4
<1>15. P + 1 - s.p = d
  BY <1>12
<1> HIDE DEF bad, stars, bad1, back, bad2, ahead
<1>16. CASE AtStar(s, pattern, text)
  <2> DEFINE r == AfterStar(s)
  <2>1. r \in States /\ r.star_p = s.p + 1 /\ r.p = s.p + 1 /\ r.star_t = s.t /\ r.t = s.t
    BY <1>13, <1>16, TurnStates DEF AfterStar
  <2>2. f[s] = f[r] /\ g[s] = g[r]
    BY <1>3, <1>13, <1>16, TurnCases
  <2> HIDE DEF r
  <2>3. r.star_p <= r.p /\ r.star_t <= r.t /\ f[r] # g[r]
    BY <1>13, <2>1, <2>2
  <2>4. a <= P + 1 - r.star_p
    BY <1>14, <2>1, <2>3
  <2>5. P + 1 - s.star_p <= P + 1 - (s.p + 1)
    BY <1>13, <2>1, <2>4
  <2>6. \A x, y \in Nat : P + 1 - x <= P + 1 - (y + 1) => ~ (x <= y)
    BY <1>1
  <2>7. s.star_p \in Nat /\ s.p \in Nat
    BY <1>13
  <2>8. QED
    BY <1>13, <2>5, <2>6, <2>7
<1>17. CASE Goes(pattern, text, s.p, s.t)
  <2> DEFINE r == AfterCharacter(s)
  <2>1. r \in States /\ r.star_p = s.star_p /\ r.p = s.p + 1 /\ r.star_t = s.star_t /\ r.t = s.t + 1
    BY <1>13, <1>17, TurnStates DEF AfterCharacter, LoopStates
  <2>2. f[s] = f[r] /\ g[s] = g[r]
    BY <1>3, <1>13, <1>17, TurnCases
  <2> HIDE DEF r
  <2>3. r.star_p <= r.p /\ r.star_t <= r.t /\ f[r] # g[r]
    <3>1. \A x, y \in Nat : x <= y => x <= y + 1
      OBVIOUS
    <3>2. s.star_p \in Nat /\ s.p \in Nat /\ s.star_t \in Nat /\ s.t \in Nat
      BY <1>13
    <3>3. QED
      BY <1>13, <2>1, <2>2, <3>1, <3>2
  <2>4. d <= P + 1 - r.p
    BY <1>14, <2>1, <2>3
  <2>5. P + 1 - s.p <= P + 1 - (s.p + 1)
    BY <1>15, <2>1, <2>4
  <2>6. QED
    BY <1>1, <1>13, <2>5
<1>18. CASE AtMiss(s, pattern, text)
  <2>1. /\ f[s] = (s.star_p # 0 /\ f[AfterMiss(s)])
        /\ g[s] = (s.star_p # 0 /\ g[AfterMiss(s)])
    BY <1>3, <1>13, <1>18, TurnCases
  <2>2. s.star_p # 0
    <3>1. ASSUME s.star_p = 0 PROVE FALSE
      <4>1. f[s] = FALSE /\ g[s] = FALSE
        BY <2>1, <3>1, Zenon
      <4>2. QED
        BY <1>13, <4>1
    <3>2. QED
      BY <3>1
  <2> DEFINE r == AfterMiss(s)
  <2>3. r \in States /\ r.star_p = s.star_p /\ r.p = s.star_p /\ r.star_t = s.star_t + 1
        /\ r.t = s.star_t + 1
    BY <1>13, <2>2, TurnStates DEF AfterMiss, LoopStates
  <2>4. f[r] # g[r]
    <3>1. ASSUME f[r] = g[r] PROVE f[s] = g[s]
      BY <2>1, <3>1, Zenon
    <3>2. QED
      BY <1>13, <3>1
  <2> HIDE DEF r
  <2>5. r.star_p <= r.p /\ r.star_t <= r.t
    BY <1>13, <2>3
  <2>6. c <= T - r.star_t
    BY <1>14, <2>3, <2>4, <2>5
  <2>7. T - s.star_t <= T - (s.star_t + 1)
    BY <1>13, <2>3, <2>6
  <2>8. QED
    BY <1>1, <1>13, <2>7
<1>19. ~ AtEnd(s, text)
  BY <1>1, <1>13 DEF AtEnd
<1>20. QED
  BY <1>16, <1>17, <1>18, <1>19 DEF AtMiss

\* wildcard_match() finds out whether the whole text is what the pattern stands for.
LEMMA WildcardFits ==
  ASSUME NEW pattern, NEW text, Len(pattern) \in Nat, Len(text) \in Nat
  PROVE  WildcardMatch(pattern, text) <=> Fits(pattern, text, 1, 1)
<1> DEFINE g == [s \in LoopStates(pattern) |-> Outcome(pattern, text, s)]
           P == Len(pattern)
           T == Len(text)
<1>1. IsLoop(g, pattern, text)
  BY OutcomesAreLoop
<1>2. PICK loop : IsLoop(loop, pattern, text) /\ WildcardMatch(pattern, text) = loop[Begin]
  BY <1>1, LoopIsPicked
<1>3. Begin \in LoopStates(pattern) /\ Begin.star_p <= Begin.p /\ Begin.star_t <= Begin.t
      /\ Begin.p = 1 /\ Begin.t = 1 /\ Begin.star_p = 0 /\ Begin.star_t = 0
  BY DEF Begin, LoopStates
<1>4. g[Begin] = Outcome(pattern, text, Begin)
  BY <1>3
<1> HIDE DEF g
<1>5. loop[Begin] = g[Begin]
  BY <1>1, <1>2, <1>3, LoopsAgree
<1>6. WildcardMatch(pattern, text) <=> Outcome(pattern, text, Begin)
  BY <1>2, <1>4, <1>5
<1>7. 1 \in 1 .. P + 1 /\ 1 \in Nat \ {0} /\ P \in Nat /\ T \in Nat
  OBVIOUS
<1>8. PICK n \in Nat : Stretch(pattern, text, 1, 1, n) /\ 1 + n \in 1 .. P + 1
  BY <1>7, StretchExists
<1>9. Outcome(pattern, text, Begin) <=> Verdict(pattern, text, 1 + n, 1 + n, 0, 0)
  BY <1>3, <1>8, OutcomeIsVerdict
<1>10. GoesOn(pattern, text, 1, 1, n) /\ ~ Goes(pattern, text, 1 + n, 1 + n) /\ 1 + n \in Nat \ {0}
  BY <1>8 DEF Stretch
<1>11. Fits(pattern, text, 1 + n, 1 + n) <=> Fits(pattern, text, 1, 1)
  BY <1>7, <1>8, <1>10, FitsAhead, FitsBehind
<1>12. CASE 1 + n > T
  <2>1. Verdict(pattern, text, 1 + n, 1 + n, 0, 0) <=> AllStars(pattern, 1 + n)
    BY <1>12 DEF Verdict
  <2>2. AllStars(pattern, 1 + n) <=> Fits(pattern, text, 1 + n, 1 + n)
    BY <1>8, <1>10, <1>12, FitsEnd
  <2>3. QED
    BY <1>6, <1>9, <1>11, <2>1, <2>2, Zenon
<1>13. CASE ~ (1 + n > T) /\ 1 + n <= P /\ pattern[1 + n] = "*"
  <2>1. Verdict(pattern, text, 1 + n, 1 + n, 0, 0) <=> Fits(pattern, text, 1 + n, 1 + n)
    BY <1>13 DEF Verdict
  <2>2. QED
    BY <1>6, <1>9, <1>11, <2>1, Zenon
<1>14. CASE ~ (1 + n > T) /\ ~ (1 + n <= P /\ pattern[1 + n] = "*")
  <2>1. ~ Verdict(pattern, text, 1 + n, 1 + n, 0, 0)
    BY <1>14 DEF Verdict
  <2>2. 1 + n \in 1 .. T
    BY <1>7, <1>10, <1>14
  <2>3. CASE 1 + n = P + 1
    BY <1>9, <2>1, <2>2, <2>3, FitsNothing, <1>11, <1>6
  <2>4. CASE 1 + n # P + 1
    <3>1. 1 + n \in 1 .. P /\ pattern[1 + n] # "*"
      BY <1>7, <1>8, <1>14, <2>4
    <3>2. pattern[1 + n] # text[1 + n]
      BY <1>10, <2>2, <3>1 DEF Goes
    <3>3. ~ Fits(pattern, text, 1 + n, 1 + n)
      BY <1>10, <3>1, <3>2, FitsCharacter
    <3>4. QED
      BY <1>6, <1>9, <1>11, <2>1, <3>3
  <2>5. QED
    BY <2>3, <2>4
<1>15. QED
  BY <1>12, <1>13, <1>14

-----------------------------------------------------------------------------
(* Patterns as they are described.                                         *)

\* Where the end is anchored, the whole path has to fit.
LEMMA AnchoredDescribes ==
  ASSUME NEW pattern \in Patterns, NEW q \in Paths, Anchored(pattern)
  PROVE  Describes(pattern, q) <=> Fits(Body(pattern), q, 1, 1)
<1>1. Len(q) \in Nat /\ Len(Body(pattern)) \in Nat /\ pattern # <<>>
  BY RobotsAssumption, Lengths DEF Specificity, Anchored
<1>2. 1 - 1 = 0 /\ Before(q, 1) = 0
  BY <1>1 DEF Before
<1>3. QED
  BY <1>1, <1>2 DEF Describes, Fits, Places, Follows

\* Where the pattern ends in a star, what follows does not matter.
LEMMA OpenDescribes ==
  ASSUME NEW pattern \in Patterns, NEW q \in Paths, ~ Anchored(pattern),
         pattern # <<>>, pattern[Len(pattern)] = "*"
  PROVE  Describes(pattern, q) <=> Fits(pattern, q, 1, 1)
<1> DEFINE P == Len(pattern)
           T == Len(q)
<1>1. Body(pattern) = pattern
  BY DEF Body
<1>2. T \in Nat /\ P \in Nat \ {0}
  <2>1. pattern \in Seq(STRING) /\ q \in Seq(STRING)
    BY RobotsAssumption
  <2>2. QED
    BY <2>1, EmptySeq
<1>3. 1 - 1 = 0 /\ Before(q, 1) = 0
  BY <1>2 DEF Before
<1>4. Fits(pattern, q, 1, 1) <=>
        \E at \in [0 .. P -> 0 .. T] :
          at[0] = 0 /\ at[P] = T /\ \A k \in 1 .. P : Follows(pattern, q, at, k)
  BY <1>3 DEF Fits, Places
<1>5. Describes(pattern, q) <=>
        \E at \in [0 .. P -> 0 .. T] : at[0] = 0 /\ \A k \in 1 .. P : Follows(pattern, q, at, k)
  BY <1>1 DEF Describes, Follows
<1>6. ASSUME NEW at \in [0 .. P -> 0 .. T], at[0] = 0,
             \A k \in 1 .. P : Follows(pattern, q, at, k)
      PROVE  Fits(pattern, q, 1, 1)
  <2> DEFINE more == [at EXCEPT ![P] = T]
  <2>1. more \in [0 .. P -> 0 .. T] /\ more[0] = 0 /\ more[P] = T
    BY <1>2, <1>6
  <2>2. \A k \in 0 .. P - 1 : more[k] = at[k]
    BY <1>2
  <2>3. ASSUME NEW k \in 1 .. P PROVE Follows(pattern, q, more, k)
    <3>1. CASE k = P
      <4>1. more[k - 1] \in 0 .. T
        BY <1>2, <2>1, <3>1
      <4>2. QED
        BY <1>2, <2>1, <3>1, <4>1 DEF Follows
    <3>2. CASE k # P
      <4>1. k \in 0 .. P - 1 /\ k - 1 \in 0 .. P - 1
        BY <1>2, <3>2
      <4>2. more[k] = at[k] /\ more[k - 1] = at[k - 1]
        BY <2>2, <4>1
      <4>3. QED
        BY <1>6, <4>2 DEF Follows
    <3>3. QED
      BY <3>1, <3>2
  <2> HIDE DEF more
  <2>4. QED
    BY <1>4, <2>1, <2>3
<1>7. QED
  BY <1>4, <1>5, <1>6

\* Without star and anchor it is a prefix.
LEMMA PlainDescribes ==
  ASSUME NEW pattern \in Patterns, NEW q \in Paths, ~ Anchored(pattern), ~ Starred(pattern),
         pattern # <<>>
  PROVE  Describes(pattern, q) <=> IsPrefixOf(pattern, q)
<1> DEFINE P == Len(pattern)
           T == Len(q)
<1>1. pattern \in Seq(STRING) /\ q \in Seq(STRING) /\ Body(pattern) = pattern
  BY RobotsAssumption DEF Body
<1>2. P \in Nat \ {0} /\ T \in Nat /\ DOMAIN pattern = 1 .. P
  BY <1>1, EmptySeq
<1>3. \A k \in 1 .. P : pattern[k] # "*"
  BY <1>2 DEF Starred
<1>4. Describes(pattern, q) <=>
        \E at \in [0 .. P -> 0 .. T] :
          at[0] = 0 /\ \A k \in 1 .. P : at[k] = at[k - 1] + 1 /\ q[at[k]] = pattern[k]
  BY <1>1, <1>3 DEF Describes
<1>5. IsPrefixOf(pattern, q) <=> P <= T /\ \A k \in 1 .. P : q[k] = pattern[k]
  <2>1. CASE P <= T
    <3>1. \A k \in 1 .. P : q[k] \in STRING
      BY <1>1, <1>2, <2>1, ElementOfSeq
    <3>2. SubSeq(q, 1, P) \in Seq(STRING) /\ Len(SubSeq(q, 1, P)) = P
          /\ \A k \in 1 .. P : SubSeq(q, 1, P)[k] = q[k]
      BY <1>1, <1>2, <2>1, <3>1
    <3>3. ASSUME SubSeq(q, 1, P) = pattern PROVE \A k \in 1 .. P : q[k] = pattern[k]
      BY <3>2, <3>3
    <3>4. ASSUME \A k \in 1 .. P : q[k] = pattern[k] PROVE SubSeq(q, 1, P) = pattern
      BY <1>1, <3>2, <3>4, SeqEqual
    <3>5. QED
      BY <2>1, <3>3, <3>4 DEF IsPrefixOf
  <2>2. QED
    BY <2>1 DEF IsPrefixOf
<1>6. ASSUME P <= T, \A k \in 1 .. P : q[k] = pattern[k] PROVE Describes(pattern, q)
  <2> DEFINE at == [k \in 0 .. P |-> k]
  <2>1. at \in [0 .. P -> 0 .. T] /\ at[0] = 0
    BY <1>2, <1>6
  <2>2. \A k \in 1 .. P : at[k] = k /\ at[k - 1] = k - 1
    BY <1>2
  <2>3. \A k \in 1 .. P : at[k] = at[k - 1] + 1 /\ q[at[k]] = pattern[k]
    BY <1>6, <2>2
  <2> HIDE DEF at
  <2>4. QED
    BY <1>4, <2>1, <2>3
<1>7. ASSUME NEW at \in [0 .. P -> 0 .. T], at[0] = 0,
             \A k \in 1 .. P : at[k] = at[k - 1] + 1 /\ q[at[k]] = pattern[k]
      PROVE  P <= T /\ \A k \in 1 .. P : q[k] = pattern[k]
  <2> DEFINE moved == {k \in 0 .. P : at[k] # k}
  <2>1. moved = {}
    <3>1. SUFFICES ASSUME moved # {} PROVE FALSE
      OBVIOUS
    <3>2. moved \in SUBSET Nat
      OBVIOUS
    <3>3. PICK k \in moved : \A j \in moved : k <= j
      BY <3>1, <3>2, Smallest
    <3>4. k \in 1 .. P /\ k - 1 \in 0 .. P /\ ~ (k <= k - 1)
      BY <1>2, <1>7, <3>3
    <3>5. at[k - 1] = k - 1
      BY <3>3, <3>4
    <3>6. at[k] = k
      BY <1>7, <3>4, <3>5
    <3>7. QED
      BY <3>3, <3>6
  <2>2. \A k \in 0 .. P : at[k] = k
    BY <2>1
  <2>3. QED
    BY <1>2, <1>7, <2>2
<1>8. QED
  BY <1>4, <1>5, <1>6, <1>7

\* What a pattern matches is what it describes, but for one with a star that goes on to an
\* end that is not anchored.
LEMMA MatchesAsDescribed ==
  ASSUME NEW pattern \in Patterns, NEW q \in Paths, Bounded(pattern)
  PROVE  Matching[pattern][q] = Described[pattern][q]
<1>1. /\ Matching[pattern][q] = PatternMatches(pattern, q)
      /\ Described[pattern][q] = Describes(pattern, q)
  BY DEF Matching, Described
<1>2. pattern \in Seq(STRING) /\ Len(q) \in Nat /\ Len(pattern) \in Nat /\ Len(Body(pattern)) \in Nat
  BY RobotsAssumption, Lengths DEF Specificity
<1>3. PatternMatches(pattern, q) <=> Describes(pattern, q)
  <2>1. CASE pattern = <<>>
    BY <2>1 DEF PatternMatches, Describes
  <2>2. CASE Anchored(pattern)
    <3>1. PatternMatches(pattern, q) <=> WildcardMatch(Body(pattern), q)
      BY <2>2 DEF PatternMatches, Anchored
    <3>2. QED
      BY <1>2, <2>2, <3>1, WildcardFits, AnchoredDescribes
  <2>3. CASE pattern # <<>> /\ ~ Anchored(pattern) /\ ~ Starred(pattern)
    BY <2>3, PlainDescribes DEF PatternMatches
  <2>4. CASE pattern # <<>> /\ ~ Anchored(pattern) /\ Starred(pattern)
    <3>1. pattern[Len(pattern)] = "*"
      BY <2>4 DEF Bounded
    <3>2. PatternMatches(pattern, q) <=> WildcardMatch(pattern, q)
      BY <2>4 DEF PatternMatches, Body
    <3>3. QED
      BY <1>2, <2>4, <3>1, <3>2, WildcardFits, OpenDescribes
  <2>5. QED
    BY <2>1, <2>2, <2>3, <2>4
<1>4. QED
  BY <1>1, <1>3, Zenon DEF PatternMatches, Describes

\* A verdict is the one that the patterns call for as they are described, for any patterns
\* of any length, if none has a star and goes on to an end that is not anchored.
THEOREM VerdictsAsDescribed == Spec => []VerdictAsDescribed
<1>1. TypeOK /\ Judged /\ LongestRuleDecides => VerdictAsDescribed
  <2> SUFFICES ASSUME TypeOK, Judged, LongestRuleDecides, verdict # None,
                      \A k \in DOMAIN Chosen.rules : Bounded(Chosen.rules[k].pattern)
               PROVE  verdict = AllowedBy(Chosen.rules, path, Described)
    BY DEF VerdictAsDescribed
  <2> DEFINE rules == Chosen.rules
  <2>1. path \in Paths
    BY DEF TypeOK, Judged
  <2>2. ASSUME NEW k \in DOMAIN rules
        PROVE  Matching[rules[k].pattern][path] = Described[rules[k].pattern][path]
    <3>1. rules[k] \in Rule
      BY ChosenType
    <3>2. rules[k].pattern \in Patterns
      BY <3>1 DEF Rule
    <3>3. QED
      BY <2>1, <3>2, MatchesAsDescribed
  <2>3. verdict = AllowedBy(rules, path, Matching)
    BY DEF LongestRuleDecides
  <2> HIDE DEF rules
  <2>4. {k \in DOMAIN rules : Matching[rules[k].pattern][path]}
          = {k \in DOMAIN rules : Described[rules[k].pattern][path]}
    BY <2>2
  <2>5. AllowedBy(rules, path, Matching) = AllowedBy(rules, path, Described)
    BY <2>4, Zenon DEF AllowedBy
  <2>6. QED
    BY <2>3, <2>5 DEF rules
<1>2. QED
  BY <1>1, InitTypeOK, StepTypeOK, InitJudging, StepJudging, FollowsLongestRule, PTL DEF Spec

=============================================================================
