------------------------------ MODULE RobotsTxt -----------------------------
(***************************************************************************)
(* robots.txt (robots.cpp): parse(), one action for each kind of line, and *)
(* is_allowed(), one action for each rule it considers.                    *)
(*                                                                         *)
(* A line is a field and its value, trimmed and in lower case; comments,   *)
(* empty lines and lines without a colon are skipped before they can make  *)
(* a difference, and are not lines here.  Patterns and paths are sequences *)
(* of characters, because it is characters that a wildcard stands for; an  *)
(* empty path is asked about as "/".  The list of sitemaps, which nothing   *)
(* reads, is left out.                                                     *)
(*                                                                         *)
(* Bound: a file has at most MaxLines lines.                               *)
(***************************************************************************)
EXTENDS Integers, Sequences

CONSTANTS
  Agents,     \* the values of User-agent lines
  Star,       \* the one that stands for every agent
  Ours,       \* those that name our agent, or begin as its name does
  Patterns,   \* the values of Allow and Disallow lines
  Delays,     \* the values of Crawl-delay lines
  Paths,      \* the paths that are asked about
  MaxLines,
  None

ASSUME RobotsAssumption ==
  /\ Star \in Agents \ Ours
  /\ Ours \subseteq Agents
  /\ Patterns \subseteq Seq(STRING)
  /\ Paths \subseteq Seq(STRING) \ {<<>>}
  /\ Delays \subseteq Int
  /\ MaxLines \in Nat
  /\ None \notin BOOLEAN /\ None \notin Paths

-----------------------------------------------------------------------------
(* Patterns.                                                               *)

Anchored(pattern) == pattern # <<>> /\ pattern[Len(pattern)] = "$"

\* The pattern without its end anchor; its length is its specificity.
Body(pattern) == IF Anchored(pattern) THEN SubSeq(pattern, 1, Len(pattern) - 1) ELSE pattern
Specificity(pattern) == Len(Body(pattern))

IsPrefixOf(s, t) == Len(s) <= Len(t) /\ SubSeq(t, 1, Len(s)) = s

\* Mutant of WildcardMatch: after a mismatch it goes on behind the mismatch.
WildcardMatchOnward(pattern, text) ==
  LET P == Len(pattern)
      T == Len(text)
      loop[p \in 1 .. P + 1, t \in 1 .. T + 1, star_p \in 0 .. P + 1] ==
        CASE t > T ->
               \A k \in p .. P : pattern[k] = "*"
          [] t <= T /\ p <= P /\ pattern[p] = "*" ->
               loop[p + 1, t, p + 1]
          [] t <= T /\ p <= P /\ pattern[p] # "*" /\ pattern[p] = text[t] ->
               loop[p + 1, t + 1, star_p]
          [] OTHER ->
               star_p # 0 /\ loop[star_p, t + 1, star_p]
  IN loop[1, 1, 0]

\* The loop of wildcard_match(): where it stands in both, and to where it goes back
\* on a mismatch: behind the last star (0: none yet), one character further on.  It
\* ends at the end of the text in any case, anchored or not.
WildcardMatch(pattern, text) ==
  LET P == Len(pattern)
      T == Len(text)
      loop[s \in [p : 1 .. P + 1, t : Nat \ {0}, star_p : 0 .. P + 1, star_t : Nat]] ==
        CASE s.t > T ->
               \A k \in s.p .. P : pattern[k] = "*"
          [] s.t <= T /\ s.p <= P /\ pattern[s.p] = "*" ->
               loop[[p |-> s.p + 1, t |-> s.t, star_p |-> s.p + 1, star_t |-> s.t]]
          [] s.t <= T /\ s.p <= P /\ pattern[s.p] # "*" /\ pattern[s.p] = text[s.t] ->
               loop[[s EXCEPT !.p = @ + 1, !.t = @ + 1]]
          [] OTHER ->
               /\ s.star_p # 0
               /\ loop[[s EXCEPT !.p = s.star_p, !.t = s.star_t + 1, !.star_t = @ + 1]]
  IN loop[[p |-> 1, t |-> 1, star_p |-> 0, star_t |-> 0]]

Starred(pattern) == \E k \in DOMAIN pattern : pattern[k] = "*"

PatternMatches(pattern, path) ==
  /\ pattern # <<>>
  /\ IF Anchored(pattern) \/ Starred(pattern)
     THEN WildcardMatch(Body(pattern), path)
     ELSE IsPrefixOf(pattern, path)

Matching == [pattern \in Patterns |-> [p \in Paths |-> PatternMatches(pattern, p)]]

-----------------------------------------------------------------------------

VARIABLES
  lines,      \* the lines read so far
  exact,      \* the rules and the delay of the groups that name our agent
  wildcard,   \* and of those that name "*"
  saw_exact, group_matches_exact, group_matches_wildcard, collecting_agents,
  calling,    \* whether is_allowed() is at work
  path,       \* the path last asked about
  next,       \* the rule to be considered next
  best_length, best_allow, matched,
  verdict     \* what is_allowed() has returned

fileVars == <<lines, exact, wildcard>>
groupVars == <<saw_exact, group_matches_exact, group_matches_wildcard, collecting_agents>>
bestVars == <<best_length, best_allow, matched>>
vars == <<fileVars, groupVars, calling, path, next, bestVars, verdict>>

Rule == [pattern : Patterns \ {<<>>}, allow : BOOLEAN]

Line == [field : {"user-agent"}, value : Agents]
          \cup [field : {"allow", "disallow"}, value : Patterns]
          \cup [field : {"crawl-delay"}, value : Delays]
          \cup [field : {"other"}, value : {None}]

TypeOK ==
  /\ lines \in Seq(Line)
  /\ exact \in [rules : Seq(Rule), delay : Nat]
  /\ wildcard \in [rules : Seq(Rule), delay : Nat]
  /\ saw_exact \in BOOLEAN /\ collecting_agents \in BOOLEAN
  /\ group_matches_exact \in BOOLEAN /\ group_matches_wildcard \in BOOLEAN
  /\ calling \in BOOLEAN
  /\ path \in Paths \cup {None}
  /\ next \in Nat \ {0}
  /\ best_length \in Nat /\ best_allow \in BOOLEAN /\ matched \in BOOLEAN
  /\ verdict \in BOOLEAN \cup {None}

Init ==
  /\ lines = <<>>
  /\ exact = [rules |-> <<>>, delay |-> 0]
  /\ wildcard = [rules |-> <<>>, delay |-> 0]
  /\ saw_exact = FALSE /\ collecting_agents = FALSE
  /\ group_matches_exact = FALSE /\ group_matches_wildcard = FALSE
  /\ calling = FALSE /\ path = None /\ next = 1
  /\ best_length = 0 /\ best_allow = TRUE /\ matched = FALSE
  /\ verdict = None

-----------------------------------------------------------------------------
(* parse().                                                                *)

\* The next line, as long as nobody has asked for a verdict.
Read(line) ==
  /\ ~calling /\ path = None
  /\ Len(lines) < MaxLines
  /\ lines' = Append(lines, line)
  /\ UNCHANGED <<calling, path, next, bestVars, verdict>>

\* Mutant of UserAgent: the groups before this one go on.
UserAgentJoins(agent) ==
  /\ Read([field |-> "user-agent", value |-> agent])
  /\ collecting_agents' = TRUE
  /\ group_matches_exact' = (group_matches_exact \/ agent \in Ours)
  /\ group_matches_wildcard' = (group_matches_wildcard \/ agent = Star)
  /\ saw_exact' = (saw_exact \/ agent \in Ours)
  /\ UNCHANGED <<exact, wildcard>>

\* A line that follows another of its kind adds to the same group.
UserAgent(agent) ==
  /\ Read([field |-> "user-agent", value |-> agent])
  /\ collecting_agents' = TRUE
  /\ group_matches_exact' = ((collecting_agents /\ group_matches_exact) \/ agent \in Ours)
  /\ group_matches_wildcard' = ((collecting_agents /\ group_matches_wildcard) \/ agent = Star)
  /\ saw_exact' = (saw_exact \/ agent \in Ours)
  /\ UNCHANGED <<exact, wildcard>>

AfterAgents ==
  /\ collecting_agents' = FALSE
  /\ UNCHANGED <<saw_exact, group_matches_exact, group_matches_wildcard>>

\* An empty value adds no rule.
AddRule(rules, pattern, allow) ==
  IF pattern = <<>> THEN rules ELSE Append(rules, [pattern |-> pattern, allow |-> allow])

AllowOrDisallow(pattern, allow) ==
  /\ Read([field |-> IF allow THEN "allow" ELSE "disallow", value |-> pattern])
  /\ AfterAgents
  /\ exact' = IF group_matches_exact
              THEN [exact EXCEPT !.rules = AddRule(@, pattern, allow)] ELSE exact
  /\ wildcard' = IF group_matches_wildcard
                 THEN [wildcard EXCEPT !.rules = AddRule(@, pattern, allow)] ELSE wildcard

CrawlDelay(seconds) ==
  /\ Read([field |-> "crawl-delay", value |-> seconds])
  /\ AfterAgents
  /\ exact' = IF group_matches_exact /\ seconds > 0
              THEN [exact EXCEPT !.delay = seconds] ELSE exact
  /\ wildcard' = IF group_matches_wildcard /\ seconds > 0
                 THEN [wildcard EXCEPT !.delay = seconds] ELSE wildcard

\* A field of another name, Sitemap among them.
OtherField ==
  /\ Read([field |-> "other", value |-> None])
  /\ AfterAgents
  /\ UNCHANGED <<exact, wildcard>>

\* What parse() returns: a group that names our agent hides those that name "*",
\* even when it has no rules.
Chosen == IF saw_exact THEN exact ELSE wildcard

-----------------------------------------------------------------------------
(* is_allowed().                                                           *)

Ask(p) ==
  /\ ~calling
  /\ calling' = TRUE
  /\ path' = p
  /\ next' = 1
  /\ best_length' = 0 /\ best_allow' = TRUE /\ matched' = FALSE
  /\ verdict' = None
  /\ UNCHANGED <<fileVars, groupVars>>

Better(rule) ==
  \/ ~matched
  \/ Specificity(rule.pattern) > best_length
  \/ Specificity(rule.pattern) = best_length /\ rule.allow

\* Mutant of Consider: of two rules as long, the later one decides.
ConsiderLater ==
  /\ calling /\ next <= Len(Chosen.rules)
  /\ LET rule == Chosen.rules[next] IN
     IF Matching[rule.pattern][path] /\ (~matched \/ Specificity(rule.pattern) >= best_length)
     THEN /\ best_length' = Specificity(rule.pattern)
          /\ best_allow' = rule.allow
          /\ matched' = TRUE
     ELSE UNCHANGED bestVars
  /\ next' = next + 1
  /\ UNCHANGED <<fileVars, groupVars, calling, path, verdict>>

Consider ==
  /\ calling /\ next <= Len(Chosen.rules)
  /\ LET rule == Chosen.rules[next] IN
     IF Matching[rule.pattern][path] /\ Better(rule)
     THEN /\ best_length' = Specificity(rule.pattern)
          /\ best_allow' = rule.allow
          /\ matched' = TRUE
     ELSE UNCHANGED bestVars
  /\ next' = next + 1
  /\ UNCHANGED <<fileVars, groupVars, calling, path, verdict>>

Answer ==
  /\ calling /\ next > Len(Chosen.rules)
  /\ calling' = FALSE
  /\ verdict' = (matched => best_allow)
  /\ UNCHANGED <<fileVars, groupVars, path, next, bestVars>>

-----------------------------------------------------------------------------

Parse ==
  \/ \E agent \in Agents : UserAgent(agent)
  \/ \E pattern \in Patterns, allow \in BOOLEAN : AllowOrDisallow(pattern, allow)
  \/ \E seconds \in Delays : CrawlDelay(seconds)
  \/ OtherField

Next == Parse \/ (\E p \in Paths : Ask(p)) \/ Consider \/ Answer

Spec == Init /\ [][Next]_vars

-----------------------------------------------------------------------------
(* Which rules are kept.                                                   *)

\* The User-agent lines a line stands under: the last ones before it, with nothing
\* but User-agent lines between them.
Header(i) ==
  {j \in 1 .. i - 1 :
     /\ lines[j].field = "user-agent"
     /\ \A k \in j .. i - 1 :
          lines[k].field # "user-agent" => \A m \in k .. i - 1 : lines[m].field # "user-agent"}

IsRule(line) == line.field \in {"allow", "disallow"} /\ line.value # <<>>
RuleOf(line) == [pattern |-> line.value, allow |-> line.field = "allow"]

RulesUnder(agents) ==
  {RuleOf(lines[i]) : i \in {k \in 1 .. Len(lines) :
     IsRule(lines[k]) /\ \E j \in Header(k) : lines[j].value \in agents}}

NamesUs == \E i \in 1 .. Len(lines) : lines[i].field = "user-agent" /\ lines[i].value \in Ours

\* robots.hpp: "keeping only the rules that apply to" our agent "or to *"; "a group
\* naming the agent explicitly wins over the wildcard group".  Of every file, and of
\* every beginning of one, exactly the rules of the right groups are kept.
OwnGroupsRules ==
  {Chosen.rules[k] : k \in DOMAIN Chosen.rules}
    = IF NamesUs THEN RulesUnder(Ours) ELSE RulesUnder({Star})

-----------------------------------------------------------------------------
(* Which rule decides.                                                     *)

AllowedBy(rules, p, matches) ==
  LET matching == {rules[k] : k \in {m \in DOMAIN rules : matches[rules[m].pattern][p]}} IN
  matching # {} =>
    \E r \in matching :
      r.allow /\ \A s \in matching : Specificity(s.pattern) <= Specificity(r.pattern)

\* robots.hpp: "the rule with the longest matching pattern wins, Allow wins a tie",
\* in whichever order the rules are given.
LongestRuleDecides ==
  verdict # None => verdict = AllowedBy(Chosen.rules, path, Matching)

\* What a pattern describes: its characters are found in the path one after the
\* other, at places that a star lets move apart, up to the end if it is anchored.
Describes(pattern, p) ==
  LET body == Body(pattern) IN
  /\ pattern # <<>>
  /\ \E at \in [0 .. Len(body) -> 0 .. Len(p)] :
       /\ at[0] = 0
       /\ \A k \in 1 .. Len(body) :
            IF body[k] = "*" THEN at[k - 1] <= at[k]
            ELSE at[k] = at[k - 1] + 1 /\ p[at[k]] = body[k]
       /\ Anchored(pattern) => at[Len(body)] = Len(p)

Described == [pattern \in Patterns |-> [p \in Paths |-> Describes(pattern, p)]]

Bounded(pattern) == Anchored(pattern) \/ ~Starred(pattern) \/ pattern[Len(pattern)] = "*"

\* A verdict is that of the patterns as they are described, if none has a star and
\* goes on to an end that is not anchored.
VerdictAsDescribed ==
  verdict # None /\ (\A k \in DOMAIN Chosen.rules : Bounded(Chosen.rules[k].pattern)) =>
    verdict = AllowedBy(Chosen.rules, path, Described)

\* robots.cpp: patterns support "'*' (any sequence) and '$' (end anchor) only", which
\* says that the end is anchored by $ alone; SECURITY.md: robots.txt is honoured
\* "with longest-match evaluation, wildcards, $ anchors".  It does not hold.
AlwaysAsDescribed ==
  verdict # None => verdict = AllowedBy(Chosen.rules, path, Described)
=============================================================================
