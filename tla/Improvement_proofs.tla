------------------------- MODULE Improvement_proofs -------------------------
(***************************************************************************)
(* Proof that a check which closes a task agrees with the crawl, and of the*)
(* types of the loop, for any pages, contents, websites and numbers of     *)
(* tasks, edits, checks and weeks.                                         *)
(*                                                                         *)
(* What a crawl can report of a page follows from its snapshot (ShownBy).  *)
(* The rules of a check that passes rule that out for the issue types its  *)
(* recommendation is for (RulesAgree), provided the check judges the issue *)
(* of its task (Judges) and has read every page that it judges (Reads):    *)
(* with the shape of tasks, that is the inductive invariant.               *)
(***************************************************************************)
EXTENDS Improvement, FiniteSetTheorems, SequenceTheorems, WellFoundedInduction, TLAPS

-----------------------------------------------------------------------------
(* What a crawl reports of a page *)

JobTypes ==
    JobFlawTypes \cup {"expired_job_posting", "expired_job_posting_linked",
                       "expired_job_posting_404", "job_posting_schema_missing"}

CanShow(shot, type) ==
    LET a == Content(shot)
    IN  \/ type = "http_404" /\ a.status = 404
        \/ type = "http_410" /\ a.status = 410
        \/ type = "http_5xx" /\ a.status >= 500
        \/ type = "long_redirect_chain" /\ shot.hops > MaxHops
        \/ type \in OnPageTypes \cup {"conflicting_robots", "invalid_json_ld"} /\ type \in a.flaws
        \/ type \in {"thin_content", "canonical_other_url", "possibly_outdated_content",
                     "soft_404", "possible_soft_404", "broken_image"}
        \/ type \in ElementTypes \cup JobTypes

ShownBy(shot, type) ==
    \/ shot.error = "robots" /\ type = "robots_txt_blocked"
    \/ ~ Fetched(shot) /\ type \in CrawlErrorTypes
    \/ Fetched(shot) /\ CanShow(shot, type)

LEMMA FoundTypes ==
    ASSUME NEW p, NEW shot,
           NEW s \in ReachabilitySignals(p, shot) \cup ContentSignals(p, shot)
                     \cup Soft404Signals(p, shot, <<>>)
    PROVE  CanShow(shot, s.type)
<1>1. CASE s \in ReachabilitySignals(p, shot)
  BY <1>1 DEF ReachabilitySignals, SignalIf, Signal, CanShow
<1>2. CASE s \in ContentSignals(p, shot)
  <2>1. PICK a : a = Content(shot)
    OBVIOUS
  <2>2. \/ s.type \in OnPageTypes /\ s.type \in a.flaws
        \/ s.type \in {"thin_content", "canonical_other_url", "possibly_outdated_content"}
        \/ s.type \in {"conflicting_robots", "invalid_json_ld"} /\ s.type \in a.flaws
    BY <1>2, <2>1 DEF ContentSignals, SignalIf, Signal
  <2> QED
    BY <2>1, <2>2 DEF CanShow
<1>3. CASE s \in Soft404Signals(p, shot, <<>>)
  <2>1. s.type \in {"soft_404", "possible_soft_404"}
    BY <1>3 DEF Soft404Signals, SignalIf, Signal
  <2> QED
    BY <2>1 DEF CanShow
<1> QED
  BY <1>1, <1>2, <1>3

LEMMA SignalTypes ==
    ASSUME NEW p, NEW shot, NEW s \in PageSignals(p, shot, <<>>, 0, FALSE)
    PROVE  CanShow(shot, s.type)
<1>1. CASE s \in ReachabilitySignals(p, shot) \cup ContentSignals(p, shot)
                 \cup Soft404Signals(p, shot, <<>>)
  BY <1>1, FoundTypes
<1>2. CASE s \in ElementSignals(p, shot)
  <2>1. s.type \in ElementTypes
    BY <1>2 DEF ElementSignals, Signal
  <2> QED
    BY <2>1 DEF CanShow
<1>3. CASE s \in JobSignals(p, shot, <<>>, 0)
  <2>1. s.type \in JobTypes
    BY <1>3 DEF JobSignals, SignalIf, Signal, JobTypes, JobFlawTypes
  <2> QED
    BY <2>1 DEF CanShow
<1> QED
  BY <1>1, <1>2, <1>3 DEF PageSignals, PreferContextual

\* What the reports of a crawl show of a page follows from its snapshot.
LEMMA ReportTypes ==
    ASSUME NEW p, NEW shot, NEW i \in DOMAIN FetchReports(p, shot, <<>>, 0, FALSE),
           NEW s \in FetchReports(p, shot, <<>>, 0, FALSE)[i].shown
    PROVE  ShownBy(shot, s.type)
<1>1. PICK reports : reports = FetchReports(p, shot, <<>>, 0, FALSE)
  OBVIOUS
<1>2. i \in DOMAIN reports /\ s \in reports[i].shown
  BY <1>1
<1>3. CASE shot.error = "robots"
  <2>1. PICK r : r = RobotsBlocked(p)
    OBVIOUS
  <2>2. reports = <<r>>
    BY <1>1, <1>3, <2>1 DEF FetchReports
  <2>3. s \in r.shown
    BY <1>2, <2>2
  <2>4. s.type = "robots_txt_blocked"
    BY <2>1, <2>3 DEF RobotsBlocked, Report, Signal
  <2> QED
    BY <1>3, <2>4 DEF ShownBy
<1>4. CASE shot.error # "robots" /\ ~ Fetched(shot)
  <2>1. PICK r : r = InspectCrawlError(p, shot)
    OBVIOUS
  <2>2. reports = <<r>>
    BY <1>1, <1>4, <2>1 DEF FetchReports
  <2>3. s \in r.shown
    BY <1>2, <2>2
  <2>4. s.type \in CrawlErrorTypes
    BY <2>1, <2>3 DEF InspectCrawlError, Report, Signal, SignalIf, CrawlErrorTypes
  <2> QED
    BY <1>4, <2>4 DEF ShownBy
<1>5. CASE Fetched(shot)
  <2>1. PICK r : r = AnalyzeSnapshot(p, shot, <<>>, 0, FALSE)
    OBVIOUS
  <2>2. PICK a : a = InspectAsset(p, shot)
    OBVIOUS
  <2>3. reports = <<r>> \o (IF ServesHtml(shot) THEN <<>> ELSE <<a>>)
    BY <1>1, <1>5, <2>1, <2>2 DEF FetchReports, Fetched
  <2>4. reports[i] \in {r, a}
    <3>1. PICK rest \in Seq({r, a}) : reports = <<r>> \o rest
      <4>1. <<>> \in Seq({r, a}) /\ <<a>> \in Seq({r, a})
        OBVIOUS
      <4>2. (IF ServesHtml(shot) THEN <<>> ELSE <<a>>) \in Seq({r, a})
        BY <4>1
      <4> QED
        BY <2>3, <4>2
    <3>2. <<r>> \in Seq({r, a})
      OBVIOUS
    <3>3. reports \in Seq({r, a})
      BY <3>1, <3>2, ConcatProperties
    <3> QED
      BY <1>2, <3>3, ElementOfSeq
  <2>5. s \in r.shown \/ s \in a.shown
    BY <1>2, <2>4
  <2>6. CASE s \in r.shown
    <3>1. s \in PageSignals(p, shot, <<>>, 0, FALSE)
      BY <1>5, <2>1, <2>6 DEF AnalyzeSnapshot, Report
    <3> QED
      BY <1>5, <3>1, SignalTypes DEF ShownBy
  <2>7. CASE s \in a.shown
    <3>1. s.type = "broken_image"
      BY <2>2, <2>7 DEF InspectAsset, Report, SignalIf, Signal
    <3> QED
      BY <1>5, <3>1 DEF ShownBy, CanShow
  <2> QED
    BY <2>5, <2>6, <2>7
<1> QED
  BY <1>3, <1>4, <1>5

-----------------------------------------------------------------------------
(* What the rules of a check that passes say *)

LEMMA PassedRules ==
    ASSUME NEW rules, Outcome(rules) = "resolved"
    PROVE  \A r \in rules : r.status = "passed"
<1>1. {r.status : r \in rules} = {"passed"}
  BY DEF Outcome
<1> QED
  BY <1>1

Passed(rules) == \A r \in rules : r.status = "passed"

LEMMA StatusPassed ==
    ASSUME NEW name, NEW page, NEW shots, NEW expected,
           StatusRule(name, page, shots, expected).status = "passed"
    PROVE  Answered(shots[page])
BY DEF StatusRule, Rule, PassedIf

LEMMA ReachablePassed ==
    ASSUME NEW name, NEW pages, NEW shots, Passed(ReachableRules(name, pages, shots)),
           NEW i \in DOMAIN pages
    PROVE  Answered(shots[pages[i]])
<1>1. StatusRule(name, pages[i], shots, 0).status = "passed"
  BY DEF ReachableRules, Passed
<1> QED
  BY <1>1, StatusPassed

\* The pages that the rules of a type judge.
Judged(type, scope) ==
    IF type \in FirstOnly THEN {PagesIn(scope, SourceRole(type))[1]}
    ELSE ToSet(PagesIn(scope, SourceRole(type)))

LEMMA PassedFrom ==
    ASSUME NEW r, NEW condition, r.status = PassedIf(condition), r.status = "passed"
    PROVE  condition
BY DEF PassedIf

LEMMA PagesFacts ==
    ASSUME NEW scope, scope \in Seq(ToSet(scope)), NEW role, HasRole(scope, role)
    PROVE  1 \in DOMAIN PagesIn(scope, role)
<1> DEFINE at == {i \in DOMAIN scope : scope[i].role = role}
<1>1. IsFiniteSet(DOMAIN scope)
  <2>1. PICK n \in Nat : DOMAIN scope = 1 .. n
    BY LenProperties
  <2> QED
    BY <2>1, FS_Interval
<1>2. IsFiniteSet(at) /\ at # {}
  BY <1>1, FS_Subset DEF HasRole
<1> HIDE DEF at
<1>3. Cardinality(at) \in Nat /\ Cardinality(at) # 0
  BY <1>2, FS_CardinalityType, FS_EmptySet
<1>4. DOMAIN InOrder(at) = 1 .. Cardinality(at)
  BY DEF InOrder
<1>5. DOMAIN PagesIn(scope, role) = DOMAIN InOrder(at)
  BY DEF PagesIn, at
<1> QED
  BY <1>3, <1>4, <1>5

\* What is reported of a page that answered.
LEMMA AnsweredShows ==
    ASSUME NEW shot, Answered(shot), NEW type, ShownBy(shot, type)
    PROVE  \/ type = "long_redirect_chain" /\ shot.hops > MaxHops
           \/ type \in OnPageTypes \cup {"conflicting_robots", "invalid_json_ld"}
              /\ type \in Content(shot).flaws
           \/ type \in {"thin_content", "canonical_other_url", "possibly_outdated_content",
                        "soft_404", "possible_soft_404", "broken_image"}
           \/ type \in ElementTypes \cup JobTypes
<1>1. Fetched(shot) /\ shot.error # "robots" /\ Content(shot).status = 200
  BY DEF Answered, Fetched
<1>2. CanShow(shot, type)
  BY <1>1 DEF ShownBy
<1>3. PICK a : a = Content(shot) /\ a.status = 200
  BY <1>1
<1>4. ~ (a.status = 404) /\ ~ (a.status = 410) /\ ~ (a.status >= 500)
  BY <1>3
<1> QED
  BY <1>2, <1>3, <1>4 DEF CanShow

\* No page analysis reports what an accessibility check is about.
LEMMA AccessibilityNeverShown ==
    ASSUME NEW shot, NEW issueType \in SourceTypes.repair_accessibility_component
    PROVE  ~ ShownBy(shot, issueType)
<1>1. issueType \in {"accessibility_image_alt", "accessibility_link_name"}
  BY DEF SourceTypes
<1> QED
  BY <1>1 DEF ShownBy, CanShow, CrawlErrorTypes, OnPageTypes, ElementTypes, JobTypes, JobFlawTypes

LEMMA RulesAgree ==
    ASSUME NEW type, Supported(type), type # "repair_accessibility_component",
           NEW scope, scope \in Seq(ToSet(scope)), MissingRoles(type, scope) = {},
           NEW issueType \in SourceTypes[type], issueType # "canonical_other_url",
           NEW linked, NEW shots, NEW p \in Judged(type, scope),
           Outcome(Rules(type, scope, issueType, linked, shots)) = "resolved",
           \A q \in Requested(type, scope) : shots[q].hops \in Int
    PROVE  ~ ShownBy(shots[p], issueType)
<1>1. PICK sources : sources = PagesIn(scope, SourceRole(type))
  OBVIOUS
<1>2. PICK others : others = PagesIn(scope, OptionalRole(type))
  OBVIOUS
<1>3. PICK other : other = IF others = <<>> THEN 0 ELSE others[1]
  OBVIOUS
<1>4. PICK rules : rules = Rules(type, scope, issueType, linked, shots) /\ Passed(rules)
  BY PassedRules DEF Passed
<1>5. Passed(ReachableRules("reachable", sources, shots))
  BY <1>1, <1>4 DEF Rules, Passed
<1>6. 1 \in DOMAIN sources
  <2>1. HasRole(scope, SourceRole(type))
    <3>1. SourceRole(type) \in ToSet(RequiredRoles[type])
      BY DEF Supported, RequiredRoles, SourceRole, ToSet
    <3> QED
      BY <3>1 DEF MissingRoles
  <2> QED
    BY <1>1, <2>1, PagesFacts
<1>7. PICK i \in DOMAIN sources : p = sources[i] /\ (type \in FirstOnly => i = 1)
  BY <1>1, <1>6 DEF Judged, ToSet
<1>8. Answered(shots[p])
  BY <1>5, <1>7, ReachablePassed
<1>9. p \in Requested(type, scope)
  BY <1>1, <1>7 DEF Requested, ToSet
<1>10. PICK shot : shot = shots[p] /\ Answered(shot) /\ shot.hops \in Int
  BY <1>8, <1>9
<1>11. SUFFICES ASSUME ShownBy(shot, issueType) PROVE FALSE
  BY <1>10
<1>12. type \in DOMAIN RequiredRoles
  BY DEF Supported
<1>13. issueType \notin {"thin_content", "canonical_other_url", "possibly_outdated_content",
                         "soft_404", "possible_soft_404", "broken_image"} \cup ElementTypes \cup JobTypes
  BY <1>12 DEF RequiredRoles, SourceTypes, ElementTypes, JobTypes, JobFlawTypes
<1>14. \/ issueType = "long_redirect_chain" /\ shot.hops > MaxHops
       \/ issueType \in OnPageTypes \cup {"conflicting_robots", "invalid_json_ld"}
          /\ issueType \in Content(shot).flaws
  BY <1>10, <1>11, <1>13, AnsweredShows
<1>15. CASE type = "fix_redirect_chain_or_loop"
  <2>1. Rule("redirect_chain_direct", p, PassedIf(shot.hops <= 1)) \in rules
    BY <1>1, <1>2, <1>3, <1>4, <1>7, <1>10, <1>15 DEF Rules, RedirectRules, FirstOnly
  <2>2. shot.hops <= 1
    BY <1>4, <2>1 DEF Passed, Rule, PassedIf
  <2>3. issueType \in {"redirect_loop", "long_redirect_chain"}
    BY <1>15 DEF SourceTypes
  <2> QED
    BY <1>10, <1>14, <2>2, <2>3 DEF MaxHops, OnPageTypes
<1>16. CASE type = "correct_indexability"
  <2>1. Rule("robots_instructions_consistent", p,
             PassedIf(~ (Fetched(shot) /\ "conflicting_robots" \in Content(shot).flaws) /\ ~ Blocked(shot)))
            \in rules
    BY <1>1, <1>2, <1>3, <1>4, <1>7, <1>10, <1>16 DEF Rules, IndexabilityRules, FirstOnly
  <2>2. ~ (Fetched(shot) /\ "conflicting_robots" \in Content(shot).flaws)
    BY <1>4, <2>1 DEF Passed, Rule, PassedIf
  <2>3. issueType \notin {"invalid_json_ld", "long_redirect_chain"} \cup OnPageTypes
    BY <1>16 DEF SourceTypes, OnPageTypes
  <2> QED
    BY <1>10, <1>14, <2>2, <2>3 DEF Answered
<1>17. CASE type = "add_or_correct_title"
  <2>1. Rule("present", p, PassedIf(HasText(shot, "title"))) \in rules
    BY <1>1, <1>2, <1>3, <1>4, <1>7, <1>10, <1>17 DEF Rules, TextRules
  <2>2. Text(shot, "title") # <<>>
    BY <1>4, <2>1 DEF Passed, Rule, PassedIf, HasText
  <2>3. "missing_title" \notin Content(shot).flaws
    BY <2>2 DEF Text
  <2>4. issueType \in {"missing_title", "duplicate_title", "duplicate_title_clusters"}
    BY <1>17 DEF SourceTypes
  <2> QED
    BY <1>14, <2>3, <2>4 DEF OnPageTypes
<1>18. CASE type = "add_meta_description"
  <2>1. Rule("present", p, PassedIf(HasText(shot, "meta"))) \in rules
    BY <1>1, <1>2, <1>3, <1>4, <1>7, <1>10, <1>18 DEF Rules, TextRules
  <2>2. Text(shot, "meta") # <<>>
    BY <1>4, <2>1 DEF Passed, Rule, PassedIf, HasText
  <2>3. "missing_meta_description" \notin Content(shot).flaws
    BY <2>2 DEF Text
  <2>4. issueType \in {"missing_meta_description", "duplicate_meta_description",
                       "missing_meta_description_clusters", "duplicate_meta_description_clusters"}
    BY <1>18 DEF SourceTypes
  <2> QED
    BY <1>14, <2>3, <2>4 DEF OnPageTypes
<1>19. CASE type = "add_primary_heading"
  <2>1. Rule("single_primary_heading", p,
             PassedIf(Fetched(shot) /\ Content(shot).flaws \cap {"missing_h1", "multiple_h1"} = {})) \in rules
    BY <1>1, <1>2, <1>3, <1>4, <1>7, <1>10, <1>19 DEF Rules, HeadingRules
  <2>2. Content(shot).flaws \cap {"missing_h1", "multiple_h1"} = {}
    BY <1>4, <2>1 DEF Passed, Rule, PassedIf
  <2>3. issueType \in {"missing_h1", "multiple_h1", "missing_h1_clusters", "multiple_h1_clusters"}
    BY <1>19 DEF SourceTypes
  <2> QED
    BY <1>14, <2>2, <2>3 DEF OnPageTypes
<1>20. CASE type = "repair_structured_data"
  <2>1. Passed(StructuredDataRules(sources, issueType, shots))
    BY <1>1, <1>2, <1>3, <1>4, <1>20 DEF Rules, Passed
  <2> DEFINE schema == IF issueType = "missing_breadcrumb_schema"
                       THEN "breadcrumbs" \in Content(shot).schema ELSE Content(shot).schema # {}
             valid == Answered(shot) /\ "invalid_json_ld" \notin Content(shot).flaws /\ schema
  <2>2. Rule("structured_data_valid", p, PassedIf(valid)) \in
            StructuredDataRules(sources, issueType, shots)
    BY <1>7, <1>10 DEF StructuredDataRules
  <2>4. valid
    BY <2>1, <2>2 DEF Passed, Rule, PassedIf
  <2>3. issueType \in {"invalid_json_ld", "missing_breadcrumb_schema"}
    BY <1>20 DEF SourceTypes
  <2> QED
    BY <1>14, <2>3, <2>4 DEF OnPageTypes
<1>21. CASE type \in {"repair_broken_internal_link", "replace_redirected_internal_link",
                      "restore_or_redirect_missing_page", "correct_canonical", "content_question_gap"}
  <2>1. issueType \notin OnPageTypes \cup {"conflicting_robots", "invalid_json_ld", "long_redirect_chain"}
    BY <1>21 DEF SourceTypes, OnPageTypes
  <2> QED
    BY <1>14, <2>1
<1> QED
  BY <1>12, <1>15, <1>16, <1>17, <1>18, <1>19, <1>20, <1>21 DEF RequiredRoles

-----------------------------------------------------------------------------
(* The inductive invariant *)

\* The tasks of the world, each with its check.
Shaped ==
    /\ world \in DOMAIN Worlds
    /\ tasks \in Seq(ToSet(tasks)) /\ checks \in Seq(ToSet(checks)) /\ DOMAIN checks = TaskIds
    /\ \A t \in TaskIds : IsTask(tasks[t], Here.issues)

\* A check judges the issue of its task and has all the roles it needs.
Judges(check, task, issues) ==
    check.phase # "none" =>
        /\ Supported(task.type)
        /\ task.issues # <<>> => check.issueType = issues[task.issues[1]].type
        /\ check.scope \in Seq(ToSet(check.scope)) /\ MissingRoles(task.type, check.scope) = {}

\* It has read the pages of its scope, except those it has still to do.
Reads(check, task) ==
    check.phase = "running" /\ task.type # "repair_accessibility_component" =>
        /\ DOMAIN check.shots = Requested(task.type, check.scope)
        /\ \A p \in DOMAIN check.shots : p \in check.todo \/ check.shots[p].hops \in Int

IsCheck(check, task, issues) ==
    /\ DOMAIN check = {"phase", "scope", "issueType", "todo", "shots"} /\ check.phase \in Phases
    /\ Judges(check, task, issues) /\ Reads(check, task)

Decided == verdict.outcome = "resolved" => verdict.task \in TaskIds

Inv ==
    /\ Shaped
    /\ \A t \in TaskIds : IsCheck(checks[t], tasks[t], Here.issues)
    /\ Decided
    /\ VerifiedAgreesWithCrawl

-----------------------------------------------------------------------------
(* Lists and scopes *)

LEMMA IsList ==
    ASSUME NEW S, NEW s \in Seq(S)
    PROVE  s \in Seq(ToSet(s))
<1>1. s \in [1 .. Len(s) -> ToSet(s)] /\ Len(s) \in Nat
  <2>1. s \in [1 .. Len(s) -> S] /\ DOMAIN s = 1 .. Len(s) /\ Len(s) \in Nat
    BY LenProperties
  <2> QED
    BY <2>1 DEF ToSet
<1> QED
  BY <1>1

LEMMA ListOf ==
    ASSUME NEW n \in Nat, NEW s, DOMAIN s = 1 .. n, s = [i \in 1 .. n |-> s[i]]
    PROVE  s \in Seq(ToSet(s))
<1>1. s \in [1 .. n -> ToSet(s)]
  BY DEF ToSet
<1> QED
  BY <1>1

LEMMA ListExcept ==
    ASSUME NEW s, s \in Seq(ToSet(s)), NEW i \in DOMAIN s, NEW x
    PROVE  LET s2 == [s EXCEPT ![i] = x]
           IN  s2 \in Seq(ToSet(s2)) /\ DOMAIN s2 = DOMAIN s /\ s2[i] = x
               /\ \A j \in DOMAIN s : j # i => s2[j] = s[j]
<1>1. PICK n \in Nat : DOMAIN s = 1 .. n
  BY LenProperties
<1>2. PICK s2 : s2 = [s EXCEPT ![i] = x]
  OBVIOUS
<1>3. DOMAIN s2 = 1 .. n /\ s2 = [j \in 1 .. n |-> s2[j]]
  BY <1>1, <1>2
<1>4. s2 \in Seq(ToSet(s2))
  BY <1>3, ListOf
<1> QED
  BY <1>2, <1>4

LEMMA ListAppend ==
    ASSUME NEW s, s \in Seq(ToSet(s)), NEW x
    PROVE  LET s2 == Append(s, x)
           IN  s2 \in Seq(ToSet(s2)) /\ DOMAIN s2 = DOMAIN s \cup {Len(s) + 1} /\ s2[Len(s) + 1] = x
               /\ Len(s) + 1 \notin DOMAIN s /\ \A j \in DOMAIN s : s2[j] = s[j]
<1>1. PICK S : S = ToSet(s) \cup {x}
  OBVIOUS
<1>2. s \in Seq(S) /\ x \in S
  BY <1>1, SeqMonotonic
<1>3. PICK s2 : s2 = Append(s, x)
  OBVIOUS
<1>4. /\ s2 \in Seq(S) /\ Len(s2) = Len(s) + 1 /\ s2[Len(s) + 1] = x
      /\ \A j \in 1 .. Len(s) : s2[j] = s[j]
  BY <1>2, <1>3, AppendProperties
<1>5. DOMAIN s = 1 .. Len(s) /\ Len(s) \in Nat /\ DOMAIN s2 = 1 .. Len(s) + 1
  BY <1>2, <1>4, LenProperties
<1>6. s2 \in Seq(ToSet(s2))
  BY <1>4, IsList
<1> QED
  BY <1>3, <1>4, <1>5, <1>6

LEMMA ListRemoveAt ==
    ASSUME NEW s, s \in Seq(ToSet(s)), NEW i \in DOMAIN s
    PROVE  RemoveAt(s, i) \in Seq(ToSet(RemoveAt(s, i)))
<1>1. DOMAIN s = 1 .. Len(s) /\ Len(s) \in Nat
  BY LenProperties
<1>2. PICK a : a = SubSeq(s, 1, i - 1)
  OBVIOUS
<1>3. PICK b : b = SubSeq(s, i + 1, Len(s))
  OBVIOUS
<1>4. a \in Seq(ToSet(s)) /\ b \in Seq(ToSet(s))
  BY <1>1, <1>2, <1>3, SubSeqProperties
<1>5. RemoveAt(s, i) \in Seq(ToSet(s))
  BY <1>2, <1>3, <1>4, ConcatProperties DEF RemoveAt
<1> QED
  BY <1>5, IsList

\* The issues of a world have finite evidence, so a scope is a list of rows.
Roles == {"changed", "sample", "source", "broken_target", "target", "expected_target", "old"}

AllRows == {Scoped(pr[1], pr[2]) : pr \in (Pages \cup {0}) \X Roles}

LEMMA RowsFinite == IsFiniteSet(AllRows)
<1>1. IsFiniteSet(Pages \cup {0})
  BY WorldsAssumption, FS_AddElement
<1>2. IsFiniteSet(Roles)
  <2>1. Roles = {"changed"} \cup {"sample"} \cup {"source"} \cup {"broken_target"} \cup {"target"}
                \cup {"expected_target"} \cup {"old"}
    BY DEF Roles
  <2> QED
    BY <2>1, FS_Singleton, FS_Union
<1>3. PICK pairs : pairs = (Pages \cup {0}) \X Roles /\ IsFiniteSet(pairs)
  BY <1>1, <1>2, FS_Product
<1> DEFINE f == [pr \in pairs |-> Scoped(pr[1], pr[2])]
<1>4. f \in Surjection(pairs, AllRows)
  BY <1>3 DEF Surjection, AllRows
<1> QED
  BY <1>3, <1>4, FS_Surjection

LEMMA ScopeRows ==
    ASSUME NEW d, {d.page, d.final} \subseteq Pages \cup {0},
           d.related \cup d.clusters \cup d.broken \cup d.linking \subseteq Pages, NEW type
    PROVE  ScopeFromIssue(d, type) \subseteq AllRows
<1>1. \A pages, role : pages \subseteq Pages \cup {0} /\ role \in Roles => InRole(pages, role) \subseteq AllRows
  <2> SUFFICES ASSUME NEW pages, NEW role \in Roles, pages \subseteq Pages \cup {0}, NEW r \in InRole(pages, role)
               PROVE  r \in AllRows
    OBVIOUS
  <2>1. PICK p \in pages : r = Scoped(p, role)
    BY DEF InRole
  <2>2. <<p, role>> \in (Pages \cup {0}) \X Roles
    OBVIOUS
  <2> QED
    BY <2>1, <2>2 DEF AllRows
<1> QED
  BY <1>1 DEF ScopeFromIssue, Roles

LEMMA InOrderList ==
    ASSUME NEW numbers, IsFiniteSet(numbers)
    PROVE  InOrder(numbers) \in Seq(ToSet(InOrder(numbers)))
<1>1. PICK n \in Nat : n = Cardinality(numbers)
  BY FS_CardinalityType
<1>2. PICK s : s = InOrder(numbers)
  OBVIOUS
<1> DEFINE f(i) == CHOOSE p \in numbers : Cardinality({q \in numbers : q < p}) = i - 1
<1>3. s = [i \in 1 .. n |-> f(i)]
  BY <1>1, <1>2 DEF InOrder
<1> HIDE DEF f
<1>4. DOMAIN s = 1 .. n /\ s = [i \in 1 .. n |-> s[i]]
  BY <1>3
<1> QED
  BY <1>2, <1>4, ListOf

LEMMA InUrlOrderList ==
    ASSUME NEW rows \in SUBSET AllRows
    PROVE  InUrlOrder(rows) \in Seq(ToSet(InUrlOrder(rows)))
<1> DEFINE f == [r \in rows |-> Place(r)]
           places == {Place(r) : r \in rows}
<1>1. f \in Surjection(rows, places)
  BY DEF Surjection
<1>2. IsFiniteSet(rows)
  BY RowsFinite, FS_Subset
<1>3. Cardinality(places) \in Nat
  <2> HIDE DEF f, places
  <2> QED
    BY <1>1, <1>2, FS_Surjection, FS_CardinalityType
<1>4. PICK order : order = InOrder(places)
  OBVIOUS
<1>5. DOMAIN order = 1 .. Cardinality(places)
  BY <1>4 DEF InOrder
<1>6. InUrlOrder(rows) = [i \in DOMAIN order |-> CHOOSE r \in rows : Place(r) = order[i]]
  BY <1>4 DEF InUrlOrder
<1> HIDE DEF places
<1>7. PICK s : s = InUrlOrder(rows)
  OBVIOUS
<1>8. DOMAIN s = 1 .. Cardinality(places) /\ s = [i \in 1 .. Cardinality(places) |-> s[i]]
  BY <1>5, <1>6, <1>7
<1> QED
  BY <1>3, <1>7, <1>8, ListOf

LEMMA FetchHops ==
    ASSUME NEW versions, NEW p, NEW n
    PROVE  Fetch(versions, p, n).hops \in Int
<1>1. Cardinality(Pages) \in Nat
  BY WorldsAssumption, FS_CardinalityType
<1>2. PICK end : end = Followed(versions, p)
  OBVIOUS
<1>3. end.hops \in Int
  BY <1>1, <1>2 DEF Followed
<1> QED
  BY <1>2, <1>3 DEF Fetch

-----------------------------------------------------------------------------
(* Steps *)

\* No step changes what a task is of.
SameWork ==
    /\ UNCHANGED world
    /\ \A t \in TaskIds : /\ t \in DOMAIN tasks'
                          /\ tasks'[t].type = tasks[t].type /\ tasks'[t].issues = tasks[t].issues

LEMMA VerdictKept ==
    ASSUME Decided, VerifiedAgreesWithCrawl, SameWork, UNCHANGED verdict
    PROVE  Decided' /\ VerifiedAgreesWithCrawl'
<1>1. Decided'
  BY DEF Decided, SameWork, TaskIds
<1>2. VerifiedAgreesWithCrawl'
  <2>1. CASE verdict.outcome # "resolved"
    BY <2>1 DEF VerifiedAgreesWithCrawl
  <2>2. CASE verdict.outcome = "resolved"
    <3>1. PICK t \in TaskIds : t = verdict.task
      BY <2>2 DEF Decided
    <3>2. tasks'[t].type = tasks[t].type /\ tasks'[t].issues = tasks[t].issues /\ Here' = Here
      BY DEF SameWork, Here
    <3>3. JudgedPages(verdict)' = JudgedPages(verdict)
      BY <3>1, <3>2 DEF JudgedPages
    <3> QED
      BY <3>1, <3>2, <3>3 DEF VerifiedAgreesWithCrawl
  <2> QED
    BY <2>1, <2>2
<1> QED
  BY <1>1, <1>2

LEMMA CheckKept ==
    ASSUME NEW check, NEW old, NEW new, NEW issues, IsCheck(check, old, issues),
           new.type = old.type, new.issues = old.issues
    PROVE  IsCheck(check, new, issues)
BY DEF IsCheck, Judges, Reads

\* One task and its check change, and the task stays what it is of.
LEMMA WorkStep ==
    ASSUME Inv, UNCHANGED world, NEW t \in TaskIds, NEW task, NEW check,
           tasks' = [tasks EXCEPT ![t] = task], checks' = [checks EXCEPT ![t] = check],
           task.type = tasks[t].type, task.issues = tasks[t].issues,
           IsTask(task, Here.issues), IsCheck(check, task, Here.issues)
    PROVE  /\ Shaped' /\ SameWork
           /\ (\A u \in TaskIds : IsCheck(checks[u], tasks[u], Here.issues))'
<1>1. /\ world \in DOMAIN Worlds /\ Here' = Here
      /\ tasks \in Seq(ToSet(tasks)) /\ checks \in Seq(ToSet(checks)) /\ DOMAIN checks = TaskIds
      /\ \A u \in TaskIds : IsTask(tasks[u], Here.issues)
      /\ \A u \in TaskIds : IsCheck(checks[u], tasks[u], Here.issues)
  BY DEF Inv, Shaped, Here
<1>2. /\ tasks' \in Seq(ToSet(tasks')) /\ DOMAIN tasks' = DOMAIN tasks /\ tasks'[t] = task
      /\ \A u \in TaskIds : u # t => tasks'[u] = tasks[u]
  BY <1>1, ListExcept DEF TaskIds
<1>3. /\ checks' \in Seq(ToSet(checks')) /\ DOMAIN checks' = DOMAIN checks /\ checks'[t] = check
      /\ \A u \in TaskIds : u # t => checks'[u] = checks[u]
  BY <1>1, ListExcept DEF TaskIds
<1>4. Shaped'
  BY <1>1, <1>2, <1>3 DEF Shaped, TaskIds
<1>5. SameWork
  BY <1>2 DEF SameWork, TaskIds
<1>6. \A u \in TaskIds : IsCheck(checks'[u], tasks'[u], Here.issues)
  BY <1>1, <1>2, <1>3
<1> QED
  BY <1>1, <1>2, <1>4, <1>5, <1>6 DEF TaskIds

\* One task changes, its check does not.
LEMMA TaskChange ==
    ASSUME Inv, UNCHANGED <<world, checks>>, NEW t \in TaskIds, NEW task,
           tasks' = [tasks EXCEPT ![t] = task], IsTask(task, Here.issues),
           task.type = tasks[t].type, task.issues = tasks[t].issues
    PROVE  /\ Shaped' /\ SameWork
           /\ (\A u \in TaskIds : IsCheck(checks[u], tasks[u], Here.issues))'
<1>1. checks \in Seq(ToSet(checks)) /\ t \in DOMAIN checks /\ IsCheck(checks[t], tasks[t], Here.issues)
  BY DEF Inv, Shaped
<1>2. PICK check : check = checks[t]
  OBVIOUS
<1>3. checks' = [checks EXCEPT ![t] = check]
  BY <1>1, <1>2
<1>4. IsCheck(check, task, Here.issues)
  BY <1>1, <1>2, CheckKept
<1> QED
  BY <1>3, <1>4, WorkStep

\* One check changes, its task does not.
LEMMA CheckChange ==
    ASSUME Inv, UNCHANGED <<world, tasks>>, NEW t \in TaskIds, NEW check,
           checks' = [checks EXCEPT ![t] = check], IsCheck(check, tasks[t], Here.issues)
    PROVE  /\ Shaped' /\ SameWork
           /\ (\A u \in TaskIds : IsCheck(checks[u], tasks[u], Here.issues))'
<1>1. tasks \in Seq(ToSet(tasks)) /\ t \in DOMAIN tasks /\ IsTask(tasks[t], Here.issues)
  BY DEF Inv, Shaped, TaskIds
<1>2. PICK task : task = tasks[t]
  OBVIOUS
<1>3. tasks' = [tasks EXCEPT ![t] = task]
  BY <1>1, <1>2
<1> QED
  BY <1>1, <1>2, <1>3, WorkStep

\* A new task has no check.
LEMMA AddStep ==
    ASSUME Inv, NEW task, IsTask(task, Here.issues), AddTask(task)
    PROVE  Inv' /\ SameWork
<1>1. /\ world \in DOMAIN Worlds /\ Here' = Here
      /\ tasks \in Seq(ToSet(tasks)) /\ checks \in Seq(ToSet(checks)) /\ DOMAIN checks = TaskIds
      /\ \A u \in TaskIds : IsTask(tasks[u], Here.issues)
      /\ \A u \in TaskIds : IsCheck(checks[u], tasks[u], Here.issues)
      /\ Decided /\ VerifiedAgreesWithCrawl
  BY DEF Inv, Shaped, Here, AddTask
<1>2. Len(checks) = Len(tasks)
  BY <1>1, LenProperties DEF TaskIds
<1>3. PICK n : n = Len(tasks) + 1
  OBVIOUS
<1>4. /\ tasks' \in Seq(ToSet(tasks')) /\ DOMAIN tasks' = DOMAIN tasks \cup {n} /\ tasks'[n] = task
      /\ n \notin DOMAIN tasks /\ \A u \in TaskIds : tasks'[u] = tasks[u]
  BY <1>1, <1>3, ListAppend DEF TaskIds, AddTask
<1>5. PICK none : none = NoCheck
  OBVIOUS
<1>6. /\ checks' \in Seq(ToSet(checks')) /\ DOMAIN checks' = DOMAIN checks \cup {n} /\ checks'[n] = none
      /\ \A u \in TaskIds : checks'[u] = checks[u]
  BY <1>1, <1>2, <1>3, <1>5, ListAppend DEF TaskIds, AddTask
<1>7. IsCheck(none, task, Here.issues)
  BY <1>5 DEF IsCheck, Judges, Reads, NoCheck, Phases
<1>8. Shaped'
  BY <1>1, <1>4, <1>6 DEF Shaped, TaskIds, AddTask
<1>9. \A u \in DOMAIN tasks' : IsCheck(checks'[u], tasks'[u], Here.issues)
  BY <1>1, <1>4, <1>6, <1>7 DEF TaskIds
<1>10. SameWork /\ UNCHANGED verdict
  BY <1>4 DEF SameWork, AddTask, TaskIds
<1>11. Decided' /\ VerifiedAgreesWithCrawl'
  BY <1>1, <1>10, VerdictKept
<1> QED
  BY <1>1, <1>8, <1>9, <1>10, <1>11 DEF Inv, TaskIds

LEMMA IssueTaskStep ==
    ASSUME Inv, NEW i \in Issues, CreateTaskFromIssue(i)
    PROVE  Inv' /\ SameWork
<1>1. PICK group : group = GroupOf(i)
  OBVIOUS
<1>2. group \subseteq Issues /\ IsFiniteSet(Issues)
  <2>1. group \subseteq Issues
    BY <1>1 DEF GroupOf
  <2>2. world \in DOMAIN Worlds
    BY DEF Inv, Shaped
  <2> QED
    BY <2>1, <2>2, WorldsAssumption DEF Issues, Here
<1>3. PICK type \in RecommendationFor(Here.issues[i].type) :
        LET rows == UNION {ScopeFromIssue(Here.issues[j], type) : j \in group}
        IN  AddTask(NewTask(type, <<i>> \o InOrder(group \ {i}), InUrlOrder(rows), <<>>))
  BY <1>1 DEF CreateTaskFromIssue
<1>4. PICK rows :
        /\ rows = UNION {ScopeFromIssue(Here.issues[j], type) : j \in group}
        /\ AddTask(NewTask(type, <<i>> \o InOrder(group \ {i}), InUrlOrder(rows), <<>>))
  BY <1>3
<1>5. PICK list : list = <<i>> \o InOrder(group \ {i})
  OBVIOUS
<1>6. PICK scope : scope = InUrlOrder(rows)
  OBVIOUS
<1>7. list[1] = i
  <2>1. PICK others : others = InOrder(group \ {i})
    OBVIOUS
  <2>2. IsFiniteSet(group \ {i})
    BY <1>2, FS_Subset
  <2>3. others \in Seq(ToSet(others))
    BY <2>1, <2>2, InOrderList
  <2>4. PICK S : S = ToSet(others) \cup {i}
    OBVIOUS
  <2>5. PICK one : one = <<i>>
    OBVIOUS
  <2>6. one \in Seq(S) /\ others \in Seq(S) /\ Len(others) \in Nat
    <3>1. one \in Seq(S)
      BY <2>4, <2>5
    <3> QED
      BY <2>3, <2>4, <3>1, SeqMonotonic, LenProperties
  <2>7. Len(one) = 1 /\ one[1] = i
    BY <2>5
  <2>8. (one \o others)[1] = one[1]
    BY <2>6, <2>7, ConcatProperties
  <2> QED
    BY <1>5, <2>1, <2>5, <2>7, <2>8
<1>8. scope \in Seq(ToSet(scope))
  <2>1. rows \subseteq AllRows
    <3>1. ASSUME NEW j \in group PROVE ScopeFromIssue(Here.issues[j], type) \subseteq AllRows
      <4>1. PICK d : d = Here.issues[j]
        OBVIOUS
      <4>2. /\ {d.page, d.final} \subseteq Pages \cup {0}
            /\ d.related \cup d.clusters \cup d.broken \cup d.linking \subseteq Pages
        BY <1>2, <4>1, WorldsAssumption DEF Issues, Here, Inv, Shaped
      <4> QED
        BY <4>1, <4>2, ScopeRows
    <3> QED
      BY <1>4, <3>1
  <2> QED
    BY <1>6, <2>1, InUrlOrderList
<1>9. Here.issues[i].type \in SourceTypes[type]
  BY <1>3 DEF RecommendationFor
<1>10. IsTask(NewTask(type, list, scope, <<>>), Here.issues)
  BY <1>7, <1>8, <1>9 DEF IsTask, NewTask, AllowedTransitions
<1> QED
  BY <1>5, <1>6, <1>10, <1>4, AddStep

LEMMA OtherTaskSteps ==
    ASSUME Inv, \/ \E p \in Here.questions : CreateQuestionTask(p)
                \/ \E o \in chances : PromoteOpportunity(o)
    PROVE  Inv' /\ SameWork
<1>1. ASSUME NEW row PROVE <<row>> \in Seq(ToSet(<<row>>))
  <2>1. <<row>> \in Seq({row})
    OBVIOUS
  <2> QED
    BY <2>1, IsList
<1>2. ASSUME NEW p, CreateQuestionTask(p) PROVE Inv' /\ SameWork
  <2>1. PICK scope : scope = <<Scoped(p, "page")>> /\ scope \in Seq(ToSet(scope))
    BY <1>1
  <2>2. PICK task : task = NewTask("content_question_gap", <<>>, scope, <<"question", p>>)
    OBVIOUS
  <2>3. AddTask(task)
    BY <1>2, <2>1, <2>2 DEF CreateQuestionTask
  <2>4. IsTask(task, Here.issues)
    BY <2>1, <2>2 DEF IsTask, NewTask, AllowedTransitions
  <2> QED
    BY <2>3, <2>4, AddStep
<1>3. ASSUME NEW o, PromoteOpportunity(o) PROVE Inv' /\ SameWork
  <2>1. PICK scope : scope = <<Scoped(o.page, "page")>> /\ scope \in Seq(ToSet(scope))
    BY <1>1
  <2>2. PICK task : task = NewTask("opportunity", o.issues, scope, <<o.pattern, o.page>>)
    OBVIOUS
  <2>3. AddTask(task)
    BY <1>3, <2>1, <2>2 DEF PromoteOpportunity
  <2>4. ~ Supported(task.type)
    BY <2>2 DEF Supported, RequiredRoles, NewTask
  <2>5. IsTask(task, Here.issues)
    BY <2>1, <2>2, <2>4 DEF IsTask, NewTask, AllowedTransitions
  <2> QED
    BY <2>3, <2>5, AddStep
<1> QED
  BY <1>2, <1>3

LEMMA UpdatedFacts ==
    ASSUME NEW old, NEW issues, IsTask(old, issues), NEW reason \in {"none", "manually_accepted"},
           NEW new \in DOMAIN AllowedTransitions
    PROVE  LET task == Updated(old, new, reason)
           IN  task.type = old.type /\ task.issues = old.issues /\ IsTask(task, issues)
<1>1. PICK task : task = Updated(old, new, reason)
  OBVIOUS
<1>2. /\ task.type = old.type /\ task.issues = old.issues /\ DOMAIN task = DOMAIN old
      /\ task.scope = old.scope /\ task.status = new /\ task.reason \in {reason, "none", old.reason}
  BY <1>1 DEF Updated, IsTask
<1>3. IsTask(task, issues)
  BY <1>2 DEF IsTask
<1> QED
  BY <1>1, <1>2, <1>3

\* A task that only shows another stage of its check stays what it is.
LEMMA ShownFacts ==
    ASSUME NEW old, NEW issues, IsTask(old, issues), NEW shown
    PROVE  LET task == [old EXCEPT !.shown = shown]
           IN  task.type = old.type /\ task.issues = old.issues /\ IsTask(task, issues)
<1>1. PICK task : task = [old EXCEPT !.shown = shown]
  OBVIOUS
<1>2. /\ task.type = old.type /\ task.issues = old.issues /\ DOMAIN task = DOMAIN old
      /\ task.scope = old.scope /\ task.status = old.status /\ task.reason = old.reason
  BY <1>1 DEF IsTask
<1> QED
  BY <1>1, <1>2 DEF IsTask

LEMMA Transitions ==
    ASSUME NEW s \in DOMAIN AllowedTransitions
    PROVE  AllowedTransitions[s] \subseteq DOMAIN AllowedTransitions
BY DEF AllowedTransitions

LEMMA UpdateStep ==
    ASSUME Inv, NEW t \in TaskIds, NEW new, UpdateTask(t, new)
    PROVE  Inv' /\ SameWork
<1>1. PICK old : old = tasks[t] /\ IsTask(old, Here.issues)
  BY DEF Inv, Shaped
<1>2. PICK task : task = Updated(old, new, "manually_accepted")
  OBVIOUS
<1>3. tasks' = [tasks EXCEPT ![t] = task] /\ UNCHANGED <<world, checks, verdict>>
  BY <1>1, <1>2 DEF UpdateTask
<1>4. new \in DOMAIN AllowedTransitions
  BY <1>1, Transitions DEF UpdateTask, IsTask
<1>5. task.type = old.type /\ task.issues = old.issues /\ IsTask(task, Here.issues)
  BY <1>1, <1>2, <1>4, UpdatedFacts
<1> QED
  BY <1>1, <1>3, <1>5, TaskChange, VerdictKept DEF Inv

\* A check is asked for a task with all its roles, and judges its issue.
LEMMA AskStep ==
    ASSUME Inv, UNCHANGED <<world, verdict>>, NEW t \in TaskIds, NEW task, IsTask(task, Here.issues),
           task.type = tasks[t].type, task.issues = tasks[t].issues,
           CanRequest(task, checks[t]), AskCheck(t, task)
    PROVE  Inv' /\ SameWork
<1>1. PICK asked : asked = [task EXCEPT !.shown = "queued"]
  OBVIOUS
<1>2. PICK check : check = NewCheck(task)
  OBVIOUS
<1>3. tasks' = [tasks EXCEPT ![t] = asked] /\ checks' = [checks EXCEPT ![t] = check]
  BY <1>1, <1>2 DEF AskCheck
<1>4. asked.type = task.type /\ asked.issues = task.issues /\ IsTask(asked, Here.issues)
  BY <1>1, ShownFacts
<1>5. IsCheck(check, task, Here.issues)
  BY <1>2 DEF IsCheck, Judges, Reads, NewCheck, CanRequest, IsTask, Phases
<1>6. IsCheck(check, asked, Here.issues)
  BY <1>4, <1>5, CheckKept
<1> QED
  BY <1>3, <1>4, <1>6, WorkStep, VerdictKept DEF Inv

LEMMA ReportStep ==
    ASSUME Inv, NEW t \in TaskIds, ReportImplemented(t)
    PROVE  Inv' /\ SameWork
<1>1. PICK old : old = tasks[t] /\ IsTask(old, Here.issues)
  BY DEF Inv, Shaped
<1>2. PICK task : task = Updated(old, "implemented", "none")
  OBVIOUS
<1>3. task.type = old.type /\ task.issues = old.issues /\ IsTask(task, Here.issues)
  <2>1. "implemented" \in DOMAIN AllowedTransitions
    BY DEF AllowedTransitions
  <2> QED
    BY <1>1, <1>2, <2>1, UpdatedFacts
<1>4. UNCHANGED <<world, verdict>>
  BY DEF ReportImplemented
<1>5. CASE CanRequest(task, checks[t]) /\ AskCheck(t, task)
  BY <1>1, <1>3, <1>4, <1>5, AskStep
<1>6. CASE tasks' = [tasks EXCEPT ![t] = task] /\ UNCHANGED checks
  BY <1>1, <1>3, <1>4, <1>6, TaskChange, VerdictKept DEF Inv
<1>7. CASE tasks' = [tasks EXCEPT ![t] = [task EXCEPT !.shown = "manual_review"]] /\ UNCHANGED checks
  <2>1. PICK shown : shown = [task EXCEPT !.shown = "manual_review"]
    OBVIOUS
  <2>2. shown.type = task.type /\ shown.issues = task.issues /\ IsTask(shown, Here.issues)
    BY <1>3, <2>1, ShownFacts
  <2> QED
    BY <1>1, <1>3, <1>4, <1>7, <2>1, <2>2, TaskChange, VerdictKept DEF Inv
<1> QED
  BY <1>1, <1>2, <1>5, <1>6, <1>7 DEF ReportImplemented

LEMMA RequestStep ==
    ASSUME Inv, NEW t \in TaskIds, RequestCheck(t)
    PROVE  Inv' /\ SameWork
<1>1. IsTask(tasks[t], Here.issues)
  BY DEF Inv, Shaped
<1>2. CanRequest(tasks[t], checks[t]) /\ AskCheck(t, tasks[t]) /\ UNCHANGED <<world, verdict>>
  BY DEF RequestCheck
<1> QED
  BY <1>1, <1>2, AskStep

LEMMA ScopeStep ==
    ASSUME Inv, NEW t \in TaskIds, NEW row, AddTaskUrl(t, row) \/ RemoveTaskUrl(t, row)
    PROVE  Inv' /\ SameWork
<1>1. PICK old : old = tasks[t] /\ IsTask(old, Here.issues)
  BY DEF Inv, Shaped
<1>2. ASSUME NEW scope, scope \in Seq(ToSet(scope)), tasks' = [tasks EXCEPT ![t].scope = scope],
             UNCHANGED <<world, checks, verdict>>
      PROVE  Inv' /\ SameWork
  <2>1. PICK task : task = [old EXCEPT !.scope = scope]
    OBVIOUS
  <2>2. tasks' = [tasks EXCEPT ![t] = task]
    BY <1>1, <1>2, <2>1
  <2>3. /\ task.type = old.type /\ task.issues = old.issues /\ DOMAIN task = DOMAIN old
        /\ task.scope = scope /\ task.status = old.status /\ task.reason = old.reason
    BY <1>1, <2>1 DEF IsTask
  <2>4. IsTask(task, Here.issues)
    BY <1>1, <1>2, <2>3 DEF IsTask
  <2> QED
    BY <1>1, <1>2, <2>2, <2>3, <2>4, TaskChange, VerdictKept DEF Inv
<1>3. old.scope \in Seq(ToSet(old.scope))
  BY <1>1 DEF IsTask
<1>4. CASE AddTaskUrl(t, row)
  <2>1. PICK scope : scope = Append(old.scope, row)
    OBVIOUS
  <2>2. tasks' = [tasks EXCEPT ![t].scope = scope] /\ UNCHANGED <<world, checks, verdict>>
    BY <1>1, <1>4, <2>1 DEF AddTaskUrl, Edit
  <2> QED
    BY <1>2, <1>3, <2>1, <2>2, ListAppend
<1>5. CASE RemoveTaskUrl(t, row)
  <2>1. PICK i \in DOMAIN old.scope : tasks' = [tasks EXCEPT ![t].scope = RemoveAt(@, i)]
    BY <1>1, <1>5 DEF RemoveTaskUrl
  <2>2. PICK scope : scope = RemoveAt(old.scope, i)
    OBVIOUS
  <2>3. tasks' = [tasks EXCEPT ![t].scope = scope] /\ UNCHANGED <<world, checks, verdict>>
    BY <1>1, <1>5, <2>1, <2>2 DEF RemoveTaskUrl, Edit
  <2> QED
    BY <1>2, <1>3, <2>2, <2>3, ListRemoveAt
<1> QED
  BY <1>4, <1>5

-----------------------------------------------------------------------------
(* Steps of a check *)

LEMMA BeginStep ==
    ASSUME Inv, NEW t \in TaskIds, BeginCheck(t)
    PROVE  Inv' /\ SameWork
<1>1. PICK old : old = tasks[t] /\ IsTask(old, Here.issues)
  BY DEF Inv, Shaped
<1>2. PICK asked : asked = checks[t] /\ IsCheck(asked, old, Here.issues) /\ t \in DOMAIN checks
  BY <1>1 DEF Inv, Shaped
<1>3. PICK scope : scope = IF old.type = "repair_accessibility_component" THEN old.scope
                           ELSE asked.scope
  OBVIOUS
<1>4. PICK read : read = Requested(old.type, scope)
  OBVIOUS
<1>5. PICK shots : shots = [p \in read |-> [run |-> 0]]
  OBVIOUS
<1>6. PICK check : check = [asked EXCEPT !.phase = "running", !.todo = read, !.shots = shots]
  OBVIOUS
<1>7. PICK task : task = [old EXCEPT !.shown = "running"]
  OBVIOUS
<1>8. /\ asked.phase = "queued" /\ UNCHANGED <<world, verdict>>
      /\ checks' = [checks EXCEPT ![t] = check] /\ tasks' = [tasks EXCEPT ![t] = task]
  BY <1>1, <1>2, <1>3, <1>4, <1>5, <1>6, <1>7 DEF BeginCheck
<1>9. task.type = old.type /\ task.issues = old.issues /\ IsTask(task, Here.issues)
  BY <1>1, <1>7, ShownFacts
<1>10. /\ DOMAIN check = DOMAIN asked /\ check.phase = "running" /\ check.scope = asked.scope
       /\ check.issueType = asked.issueType /\ check.todo = read /\ check.shots = shots
  BY <1>2, <1>6 DEF IsCheck
<1>11. Judges(check, old, Here.issues)
  BY <1>2, <1>8, <1>10 DEF IsCheck, Judges
<1>12. Reads(check, old)
  BY <1>3, <1>4, <1>5, <1>10 DEF Reads
<1>13. IsCheck(check, task, Here.issues)
  <2>1. IsCheck(check, old, Here.issues)
    BY <1>2, <1>10, <1>11, <1>12 DEF IsCheck, Phases
  <2> QED
    BY <1>9, <2>1, CheckKept
<1> QED
  BY <1>1, <1>8, <1>9, <1>13, WorkStep, VerdictKept DEF Inv

LEMMA ReadStep ==
    ASSUME Inv, NEW t \in TaskIds, ReadPage(t)
    PROVE  Inv' /\ SameWork
<1>1. PICK old : old = checks[t] /\ IsCheck(old, tasks[t], Here.issues) /\ t \in DOMAIN checks
  BY DEF Inv, Shaped
<1>2. PICK p \in old.todo :
        \E shot \in {Fetch(answers, p, 1)} :
            checks' = [checks EXCEPT ![t].todo = @ \ {p}, ![t].shots[p] = shot]
  <2>1. \E p \in checks[t].todo : \E shot \in {Fetch(answers, p, 1)} :
          checks' = [checks EXCEPT ![t].todo = @ \ {p}, ![t].shots[p] = shot]
    BY Zenon DEF ReadPage
  <2> QED
    BY <1>1, <2>1, Zenon
<1>3. PICK shot : /\ shot = Fetch(answers, p, 1)
                   /\ checks' = [checks EXCEPT ![t].todo = @ \ {p}, ![t].shots[p] = shot]
  BY <1>2
<1>4. UNCHANGED <<world, tasks, verdict>>
  BY DEF ReadPage
<1>5. PICK todo : todo = old.todo \ {p}
  OBVIOUS
<1>6. PICK shots : shots = [old.shots EXCEPT ![p] = shot]
  OBVIOUS
<1>7. PICK check : check = [old EXCEPT !.todo = todo, !.shots = shots]
  OBVIOUS
<1>8. checks' = [checks EXCEPT ![t] = check]
  BY <1>1, <1>3, <1>5, <1>6, <1>7 DEF IsCheck
<1>9. /\ DOMAIN check = DOMAIN old /\ check.phase = old.phase /\ check.scope = old.scope
      /\ check.issueType = old.issueType /\ check.todo = todo /\ check.shots = shots
  BY <1>1, <1>7 DEF IsCheck
<1>10. shot.hops \in Int
  BY <1>3, FetchHops
<1>11. IsCheck(check, tasks[t], Here.issues)
  <2>1. Judges(check, tasks[t], Here.issues)
    BY <1>1, <1>9 DEF IsCheck, Judges
  <2>2. Reads(check, tasks[t])
    BY <1>1, <1>5, <1>6, <1>9, <1>10 DEF IsCheck, Reads
  <2> QED
    BY <1>1, <1>9, <2>1, <2>2 DEF IsCheck
<1> QED
  BY <1>8, <1>11, <1>4, CheckChange, VerdictKept DEF Inv

LEMMA NoCheckFits == \A task, issues : IsCheck(NoCheck, task, issues)
BY DEF IsCheck, Judges, Reads, NoCheck, Phases

LEMMA FailStep ==
    ASSUME Inv, NEW t \in TaskIds, FailCheck(t)
    PROVE  Inv' /\ SameWork
<1>1. PICK old : old = tasks[t] /\ IsTask(old, Here.issues)
  BY DEF Inv, Shaped
<1>2. PICK task : task = [old EXCEPT !.shown = "error"]
  OBVIOUS
<1>3. PICK check : check = NoCheck
  OBVIOUS
<1>4. /\ UNCHANGED <<world, verdict>>
      /\ checks' = [checks EXCEPT ![t] = check] /\ tasks' = [tasks EXCEPT ![t] = task]
  BY <1>1, <1>2, <1>3 DEF FailCheck
<1>5. task.type = old.type /\ task.issues = old.issues /\ IsTask(task, Here.issues)
  BY <1>1, <1>2, ShownFacts
<1> QED
  BY <1>1, <1>3, <1>4, <1>5, NoCheckFits, WorkStep, VerdictKept DEF Inv

\* A crawl does not report an issue that the snapshot of its page does not show.
LEMMA NotShownNotReported ==
    ASSUME NEW issue, NEW shots, ~ ShownBy(shots[issue.page], issue.type)
    PROVE  NotReported(issue, shots)
<1>1. PICK shot : shot = shots[issue.page]
  OBVIOUS
<1>2. PICK p : p = issue.page
  OBVIOUS
<1>3. PICK reports : reports = FetchReports(p, shot, <<>>, 0, FALSE)
  OBVIOUS
<1>4. \A i \in DOMAIN reports : \A s \in reports[i].shown : ShownBy(shot, s.type)
  BY <1>3, ReportTypes
<1> QED
  BY <1>1, <1>2, <1>3, <1>4 DEF NotReported

LEMMA FinishStep ==
    ASSUME Inv, NEW t \in TaskIds, FinishCheck(t)
    PROVE  Inv' /\ SameWork
<1>1. PICK old : old = tasks[t] /\ IsTask(old, Here.issues)
  BY DEF Inv, Shaped
<1>2. PICK check : check = checks[t] /\ IsCheck(check, old, Here.issues) /\ t \in DOMAIN checks
  BY <1>1 DEF Inv, Shaped
<1>3. PICK scope : scope = JudgedScope(t)
  OBVIOUS
<1>4. PICK linked : linked = LinkedPages(old)
  OBVIOUS
<1>5. PICK outcome, task :
        /\ outcome = Outcome(Rules(old.type, scope, check.issueType, linked, check.shots))
        /\ task = [Finished(old, outcome) EXCEPT !.shown = StatusForOutcome[outcome]]
        /\ tasks' = [tasks EXCEPT ![t] = task]
        /\ verdict' = [task |-> t, scope |-> scope, shots |-> check.shots,
                       frozen |-> check.scope, outcome |-> outcome]
  BY <1>1, <1>2, <1>3, <1>4 DEF FinishCheck
<1>6. /\ check.phase = "running" /\ check.todo = {} /\ UNCHANGED world
      /\ checks' = [checks EXCEPT ![t] = NoCheck]
  BY <1>2 DEF FinishCheck
<1>7. PICK finished : finished = Finished(old, outcome)
  OBVIOUS
<1>8. finished.type = old.type /\ finished.issues = old.issues /\ IsTask(finished, Here.issues)
  <2>1. /\ finished.type = old.type /\ finished.issues = old.issues /\ DOMAIN finished = DOMAIN old
        /\ finished.scope = old.scope /\ finished.reason \in {old.reason, "verified"}
        /\ finished.status \in {"closed", "in_progress", "waiting_for_input"}
    BY <1>1, <1>7 DEF IsTask, Finished
  <2>2. finished.status \in DOMAIN AllowedTransitions
    BY <2>1 DEF AllowedTransitions
  <2> QED
    BY <1>1, <2>1, <2>2 DEF IsTask
<1>9. task.type = old.type /\ task.issues = old.issues /\ IsTask(task, Here.issues)
  BY <1>5, <1>7, <1>8, ShownFacts
<1>10. PICK none : none = NoCheck /\ IsCheck(none, task, Here.issues)
  BY NoCheckFits
<1>11. /\ Shaped' /\ SameWork
       /\ (\A u \in TaskIds : IsCheck(checks[u], tasks[u], Here.issues))'
  BY <1>1, <1>5, <1>6, <1>9, <1>10, WorkStep
<1>12. t \in DOMAIN tasks' /\ tasks'[t].type = old.type /\ tasks'[t].issues = old.issues /\ Here' = Here
  BY <1>1, <1>11 DEF SameWork, Here
<1>13. Decided'
  BY <1>5, <1>12 DEF Decided, TaskIds
<1>14. VerifiedAgreesWithCrawl'
  <2>1. SUFFICES ASSUME outcome = "resolved", old.issues # <<>>,
                        NEW issue, issue = Here.issues[old.issues[1]],
                        issue.page \in Judged(old.type, scope), issue.type # "canonical_other_url"
                 PROVE  NotReported(issue, check.shots)
    <3>1. /\ verdict'.task = t /\ verdict'.scope = scope /\ verdict'.outcome = outcome
          /\ verdict'.shots = check.shots
      BY <1>5
    <3>2. JudgedPages(verdict)' = Judged(old.type, scope)
      BY <1>12, <3>1 DEF JudgedPages, Judged
    <3> QED
      BY <1>12, <3>1, <3>2 DEF VerifiedAgreesWithCrawl
  <2>2. check.issueType = issue.type /\ Supported(old.type) /\ issue.type \in SourceTypes[old.type]
    BY <1>1, <1>2, <1>6, <2>1 DEF IsCheck, Judges, IsTask
  <2>3. CASE old.type = "repair_accessibility_component"
    <3>1. issue.type \in SourceTypes.repair_accessibility_component
      BY <2>2, <2>3
    <3> QED
      BY <3>1, AccessibilityNeverShown, NotShownNotReported
  <2>4. CASE old.type # "repair_accessibility_component"
    <3>1. scope = check.scope
      BY <1>1, <1>2, <1>3, <2>4 DEF JudgedScope
    <3>2. scope \in Seq(ToSet(scope)) /\ MissingRoles(old.type, scope) = {}
      BY <1>2, <1>6, <3>1 DEF IsCheck, Judges
    <3>3. \A q \in Requested(old.type, scope) : check.shots[q].hops \in Int
      BY <1>2, <1>6, <2>4, <3>1 DEF IsCheck, Reads
    <3>4. Outcome(Rules(old.type, scope, issue.type, linked, check.shots)) = "resolved"
      BY <1>5, <2>1, <2>2
    <3>5. ~ ShownBy(check.shots[issue.page], issue.type)
      BY <2>1, <2>2, <2>4, <3>2, <3>3, <3>4, RulesAgree
    <3> QED
      BY <3>5, NotShownNotReported
  <2> QED
    BY <2>3, <2>4
<1> QED
  BY <1>11, <1>13, <1>14 DEF Inv

-----------------------------------------------------------------------------
(* The theorem *)

LEMMA InitInv == Init => Inv
<1> SUFFICES ASSUME Init PROVE Inv
  OBVIOUS
<1>1. PICK w \in DOMAIN Worlds : w = world
  BY DEF Init
<1>2. /\ tasks = Worlds[w].begun /\ tasks \in Seq(ToSet(tasks))
      /\ \A t \in TaskIds : IsTask(tasks[t], Here.issues)
  BY <1>1, WorldsAssumption DEF Init, Here, TaskIds
<1>3. PICK none : none = NoCheck
  OBVIOUS
<1>4. PICK n \in Nat : DOMAIN tasks = 1 .. n
  BY <1>2, LenProperties
<1>5. DOMAIN checks = 1 .. n /\ checks = [i \in 1 .. n |-> checks[i]] /\ \A i \in 1 .. n : checks[i] = none
  BY <1>3, <1>4 DEF Init
<1>6. checks \in Seq(ToSet(checks))
  BY <1>5, ListOf
<1>7. Shaped
  BY <1>1, <1>2, <1>4, <1>5, <1>6 DEF Shaped, TaskIds
<1>8. \A t \in TaskIds : IsCheck(checks[t], tasks[t], Here.issues)
  BY <1>3, <1>4, <1>5, NoCheckFits DEF TaskIds
<1>9. verdict.outcome # "resolved"
  BY DEF Init, NoVerdict
<1> QED
  BY <1>7, <1>8, <1>9 DEF Inv, Decided, VerifiedAgreesWithCrawl

LEMMA QuietStep ==
    ASSUME Inv, UNCHANGED <<world, tasks, checks, verdict>>
    PROVE  Inv' /\ SameWork
<1>1. Here' = Here
  BY DEF Here
<1>2. Shaped' /\ SameWork
  BY <1>1 DEF Inv, Shaped, SameWork, TaskIds
<1>3. (\A t \in TaskIds : IsCheck(checks[t], tasks[t], Here.issues))'
  BY <1>1 DEF Inv, TaskIds
<1> QED
  BY <1>2, <1>3, VerdictKept DEF Inv

LEMMA InvStep == Inv /\ [Next]_vars => Inv' /\ SameWork
<1> SUFFICES ASSUME Inv, [Next]_vars PROVE Inv' /\ SameWork
  OBVIOUS
<1>1. CASE TaskStep
  BY <1>1, IssueTaskStep, OtherTaskSteps, UpdateStep, ReportStep, RequestStep, ScopeStep DEF TaskStep
<1>2. CASE CheckStep
  BY <1>2, BeginStep, ReadStep, FinishStep, FailStep DEF CheckStep
<1>3. CASE EffectStep
  BY <1>3, QuietStep DEF EffectStep, RegisterIntervention, EvaluateEffects, RefreshEffects
<1>4. CASE SiteStep
  BY <1>4, QuietStep DEF SiteStep, ChangePage, EvaluateOpportunities, ImportMetrics, NextWeek
<1>5. CASE UNCHANGED vars
  BY <1>5, QuietStep DEF vars
<1> QED
  BY <1>1, <1>2, <1>3, <1>4, <1>5 DEF Next

(* A check that closes a task as resolved agrees with the crawl: whatever the pages
   answer, the snapshots that the check judged no longer show the issue of the task to
   the analyses of a crawl (_evaluate of recommendation_verifications.py against
   inspect_snapshot of technical_checks.py). *)
THEOREM ClosedAgrees == Spec => []VerifiedAgreesWithCrawl
<1>1. Inv => VerifiedAgreesWithCrawl
  BY DEF Inv
<1> QED
  BY <1>1, InitInv, InvStep, PTL DEF Spec

-----------------------------------------------------------------------------
(* Types: the evaluations of effects *)

AreEvaluations(list) ==
    /\ list \in Seq(ToSet(list))
    /\ \A i \in DOMAIN list : list[i].status \in EffectStatuses

Kept ==
    /\ status \in [Issues -> Statuses]
    /\ DOMAIN changed \subseteq TaskIds
    /\ AreEvaluations(effects)

LEMMA EvaluatedFacts ==
    ASSUME NEW stored, AreEvaluations(stored), NEW works, NEW weeks, NEW from, NEW to, NEW asOf
    PROVE  AreEvaluations(Evaluated(stored, works, weeks, from, to, asOf))
<1>1. PICK e : e = EffectOf(works, weeks, from, to, asOf)
  OBVIOUS
<1>2. e.status \in EffectStatuses
  <2>1. PICK cohort, latest, before, after : e.status = EffectStatus(cohort, latest, before, after, asOf)
    BY <1>1 DEF EffectOf
  <2> QED
    BY <2>1 DEF EffectStatus, EffectStatuses
<1>3. PICK list : list = Evaluated(stored, works, weeks, from, to, asOf)
  OBVIOUS
<1>4. list \in {stored, Append(stored, e)}
  BY <1>1, <1>3 DEF Evaluated
<1>5. ASSUME list = Append(stored, e) PROVE AreEvaluations(list)
  <2>1. /\ list \in Seq(ToSet(list)) /\ DOMAIN list = DOMAIN stored \cup {Len(stored) + 1}
        /\ list[Len(stored) + 1] = e /\ \A j \in DOMAIN stored : list[j] = stored[j]
    BY <1>5, ListAppend DEF AreEvaluations
  <2> QED
    BY <1>2, <2>1 DEF AreEvaluations
<1> QED
  BY <1>3, <1>4, <1>5

\* The n-th pass of a refresh works on what the passes before it left.
IsRefresh(found, n) ==
    /\ DOMAIN found = 0 .. n
    /\ found[0] = effects
    /\ \A k \in 1 .. n : found[k] = RefreshedAfter(found[k - 1], InWeekOrder[k])

LEMMA Smallest ==
    ASSUME NEW S \in SUBSET Nat, S # {}
    PROVE  \E n \in S : \A m \in S : n <= m
<1>1. PICK n \in S : \A m \in S : ~ (<<m, n>> \in OpToRel(<, Nat))
  BY NatLessThanWellFounded, WFMin
<1>2. \A m \in S : ~ (m < n)
  BY <1>1 DEF OpToRel
<1> QED
  BY <1>2

HasRefresh(n) == \E found : found = [k \in 0 .. n |-> found[k]] /\ IsRefresh(found, n)

LEMMA RefreshExists ==
    ASSUME NEW n \in Nat
    PROVE  HasRefresh(n)
<1> DEFINE None == {m \in Nat : ~ HasRefresh(m)}
<1> SUFFICES ASSUME None # {} PROVE FALSE
  OBVIOUS
<1>1. PICK m \in None : \A k \in None : m <= k
  <2>1. None \in SUBSET Nat
    OBVIOUS
  <2> HIDE DEF None
  <2> QED
    BY <2>1, Smallest
<1>2. m \in Nat /\ ~ HasRefresh(m)
  BY <1>1
<1>3. CASE m = 0
  <2>1. PICK found : found = [k \in 0 .. 0 |-> effects]
    OBVIOUS
  <2>2. found = [k \in 0 .. m |-> found[k]] /\ IsRefresh(found, m)
    BY <1>3, <2>1 DEF IsRefresh
  <2> QED
    BY <1>2, <2>2 DEF HasRefresh
<1>4. CASE m # 0
  <2>1. m - 1 \in Nat /\ m - 1 \notin None
    BY <1>1, <1>2, <1>4
  <2>2. PICK g : IsRefresh(g, m - 1)
    BY <2>1 DEF HasRefresh
  <2>3. PICK top : top = RefreshedAfter(g[m - 1], InWeekOrder[m])
    OBVIOUS
  <2>4. PICK h : h = [k \in 0 .. m |-> IF k = m THEN top ELSE g[k]]
    OBVIOUS
  <2>5. h = [k \in 0 .. m |-> h[k]] /\ h[m] = top /\ \A k \in 0 .. m - 1 : h[k] = g[k]
    BY <1>2, <2>1, <2>4
  <2>6. ASSUME NEW k \in 1 .. m PROVE h[k] = RefreshedAfter(h[k - 1], InWeekOrder[k])
    <3>1. k - 1 \in 0 .. m - 1 /\ h[k - 1] = g[k - 1]
      <4>1. k - 1 \in 0 .. m - 1
        BY <1>2, <2>6
      <4> QED
        BY <2>5, <4>1
    <3>2. CASE k = m
      BY <2>3, <2>5, <3>1, <3>2
    <3>3. CASE k # m
      <4>1. k \in 1 .. m - 1 /\ k \in 0 .. m - 1
        BY <1>2, <2>6, <3>3
      <4>2. g[k] = RefreshedAfter(g[k - 1], InWeekOrder[k])
        BY <2>2, <4>1 DEF IsRefresh
      <4> QED
        BY <2>5, <3>1, <4>1, <4>2
    <3> QED
      BY <3>2, <3>3
  <2>7. h[0] = effects
    BY <1>2, <1>4, <2>1, <2>2, <2>5 DEF IsRefresh
  <2>8. IsRefresh(h, m)
    BY <2>4, <2>6, <2>7 DEF IsRefresh
  <2> QED
    BY <1>2, <2>5, <2>8 DEF HasRefresh
<1> QED
  BY <1>3, <1>4

LEMMA RefreshedFacts ==
    ASSUME Inv, Kept
    PROVE  AreEvaluations(Refreshed)
<1>1. PICK n \in Nat : n = Cardinality(DOMAIN changed)
  <2>1. PICK m \in Nat : TaskIds = 1 .. m
    BY LenProperties DEF Inv, Shaped, TaskIds
  <2>2. IsFiniteSet(DOMAIN changed)
    BY <2>1, FS_Interval, FS_Subset DEF Kept
  <2> QED
    BY <2>2, FS_CardinalityType
<1> DEFINE pass(found) == [k \in 0 .. n |-> IF k = 0 THEN effects
                                            ELSE RefreshedAfter(found[k - 1], InWeekOrder[k])]
<1>2. PICK found : found = CHOOSE f : f = pass(f)
  OBVIOUS
<1>3. Refreshed = found[n]
  BY <1>1, <1>2 DEF Refreshed
<1>4. \E f : f = pass(f)
  <2>1. PICK f : f = [k \in 0 .. n |-> f[k]] /\ IsRefresh(f, n)
    BY RefreshExists DEF HasRefresh
  <2>2. ASSUME NEW k \in 0 .. n
        PROVE  f[k] = IF k = 0 THEN effects ELSE RefreshedAfter(f[k - 1], InWeekOrder[k])
    <3>1. k = 0 \/ k \in 1 .. n
      BY <1>1, <2>2
    <3> QED
      BY <1>1, <2>1, <3>1 DEF IsRefresh
  <2>3. f = pass(f)
    BY <2>1, <2>2
  <2> QED
    BY <2>3
<1>5. found = pass(found)
  BY <1>2, <1>4
<1> DEFINE Bad == {k \in 0 .. n : ~ AreEvaluations(found[k])}
<1>6. Bad = {}
  <2> SUFFICES ASSUME Bad # {} PROVE FALSE
    OBVIOUS
  <2>1. PICK k \in Bad : \A j \in Bad : k <= j
    <3>1. Bad \in SUBSET Nat
      BY <1>1
    <3> HIDE DEF Bad
    <3> QED
      BY <3>1, Smallest
  <2>2. k \in 0 .. n /\ ~ AreEvaluations(found[k])
    BY <2>1
  <2>3. k # 0
    BY <1>5, <2>2 DEF Kept
  <2>4. k - 1 \in 0 .. n /\ AreEvaluations(found[k - 1])
    BY <1>1, <2>1, <2>2, <2>3
  <2>5. found[k] = RefreshedAfter(found[k - 1], InWeekOrder[k])
    BY <1>5, <2>2, <2>3
  <2>6. AreEvaluations(found[k])
    BY <2>4, <2>5, EvaluatedFacts DEF RefreshedAfter
  <2> QED
    BY <2>2, <2>6
<1> QED
  BY <1>1, <1>3, <1>6

\* A step leaves statuses, registered work and evaluations as they should be.
LEMMA KeptStep ==
    ASSUME Inv, Kept, [Next]_vars
    PROVE  Kept'
<1>1. SameWork /\ TaskIds \subseteq TaskIds' /\ Issues' = Issues
  BY InvStep DEF SameWork, TaskIds, Issues, Here
<1>2. ASSUME UNCHANGED <<status, changed, effects>> PROVE Kept'
  BY <1>1, <1>2 DEF Kept, AreEvaluations
<1>3. ASSUME NEW t \in TaskIds, NEW task PROVE DOMAIN Materialize(t, task) \subseteq TaskIds
  BY <1>3 DEF Materialize, Kept
<1>4. CASE TaskStep
  <2>1. ASSUME NEW task, AddTask(task) PROVE UNCHANGED <<status, changed, effects>>
    BY <2>1 DEF AddTask
  <2> QED
    BY <1>2, <1>4, <2>1 DEF TaskStep, CreateTaskFromIssue, CreateQuestionTask, PromoteOpportunity,
       UpdateTask, ReportImplemented, RequestCheck, AddTaskUrl, RemoveTaskUrl, Edit
<1>5. CASE CheckStep
  <2>1. PICK t \in TaskIds : BeginCheck(t) \/ ReadPage(t) \/ FinishCheck(t) \/ FailCheck(t)
    BY <1>5 DEF CheckStep
  <2>2. CASE BeginCheck(t) \/ ReadPage(t) \/ FailCheck(t)
    BY <1>2, <2>2 DEF BeginCheck, ReadPage, FailCheck
  <2>3. CASE FinishCheck(t)
    <3>1. PICK outcome, task :
            /\ changed' = IF outcome = "resolved" THEN Materialize(t, task) ELSE changed
            /\ effects' = IF outcome = "resolved" /\ t \in DOMAIN changed'
                          THEN Evaluated(effects, changed', measured, changed'[t].week,
                                         changed'[t].week, week) ELSE effects
            /\ status' = IF outcome = "resolved" /\ task.issues # <<>>
                         THEN [status EXCEPT ![task.issues[1]] =
                                IF @ \in {"ignored", "accepted_risk"} THEN @ ELSE "resolved"]
                         ELSE status
      BY <2>3 DEF FinishCheck
    <3>2. status' \in [Issues -> Statuses]
      BY <3>1 DEF Kept, Statuses, Reopenable
    <3>3. DOMAIN changed' \subseteq TaskIds
      BY <1>3, <2>1, <3>1 DEF Kept
    <3>4. AreEvaluations(effects')
      BY <3>1, EvaluatedFacts DEF Kept
    <3> QED
      BY <1>1, <3>2, <3>3, <3>4 DEF Kept, AreEvaluations
  <2> QED
    BY <2>1, <2>2, <2>3
<1>6. CASE EffectStep
  <2>1. status' = status
    BY <1>6 DEF EffectStep, RegisterIntervention, EvaluateEffects, RefreshEffects
  <2>2. DOMAIN changed' \subseteq TaskIds
    BY <1>3, <1>6 DEF EffectStep, RegisterIntervention, EvaluateEffects, RefreshEffects, Kept
  <2>3. AreEvaluations(effects')
    <3>1. CASE RefreshEffects
      BY <3>1, RefreshedFacts DEF RefreshEffects
    <3>2. ASSUME NEW from, NEW to, EvaluateEffects(from, to) PROVE AreEvaluations(effects')
      BY <3>2, EvaluatedFacts DEF EvaluateEffects, Kept
    <3>3. ASSUME NEW t, RegisterIntervention(t) PROVE AreEvaluations(effects')
      BY <3>3 DEF RegisterIntervention, Kept
    <3> QED
      BY <1>6, <3>1, <3>2, <3>3 DEF EffectStep
  <2> QED
    BY <1>1, <2>1, <2>2, <2>3 DEF Kept, AreEvaluations
<1>7. CASE SiteStep
  BY <1>2, <1>7 DEF SiteStep, ChangePage, EvaluateOpportunities, ImportMetrics, NextWeek
<1>8. CASE UNCHANGED vars
  BY <1>2, <1>8 DEF vars
<1> QED
  BY <1>4, <1>5, <1>6, <1>7, <1>8 DEF Next

LEMMA InitKept == Init => Kept
<1> SUFFICES ASSUME Init PROVE Kept
  OBVIOUS
<1>1. Here.decided \subseteq Statuses
  BY WorldsAssumption DEF Init, Here
<1>2. status \in [Issues -> Statuses]
  BY <1>1 DEF Init, Issues
<1>3. effects = <<>> /\ changed = <<>>
  BY DEF Init
<1>4. AreEvaluations(<<>>)
  BY DEF AreEvaluations
<1> QED
  BY <1>2, <1>3, <1>4 DEF Kept

(* Types.  In particular a check is only open for a task whose type has one
   (verification_scope_plan of recommendation_tasks.py). *)
THEOREM TypeCorrect == Spec => []TypeOK
<1>1. Inv /\ Kept => TypeOK
  <2> SUFFICES ASSUME Inv, Kept PROVE TypeOK
    OBVIOUS
  <2>1. ASSUME NEW t \in TaskIds
        PROVE  IsTask(tasks[t], Here.issues) /\ IsCheck(checks[t], tasks[t], Here.issues)
    BY DEF Inv, Shaped
  <2>2. DOMAIN checks = TaskIds
    BY DEF Inv, Shaped
  <2> QED
    BY <2>1, <2>2 DEF TypeOK, Kept, IsTask, IsCheck, Judges, AreEvaluations
<1>2. Inv /\ Kept /\ [Next]_vars => Inv' /\ Kept'
  BY InvStep, KeptStep
<1> QED
  BY <1>1, <1>2, InitInv, InitKept, PTL DEF Spec
=============================================================================
