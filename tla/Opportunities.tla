---------------------------- MODULE Opportunities ----------------------------
(***************************************************************************)
(* Where improving a page is worth the effort: the patterns that combine    *)
(* search results, issues and behaviour of one period into an evaluation    *)
(* with a score and a class.                                                *)
(*                                                                         *)
(* Abstractions.  A score is counted in hundredths of a point, a position   *)
(* in tenths.  The facts of a page are one record: its row, its newest      *)
(* classification, and its search results and visits in the period; the     *)
(* pages where a journey ends and the queries with another intent than      *)
(* their page are facts too.  Evidence is reduced to the issues in it.      *)
(***************************************************************************)
EXTENDS Integers, Sequences, FiniteSets, FiniteSetsExt

AtMost(a, b) == IF a <= b THEN a ELSE b
AtLeast(a, b) == IF a >= b THEN a ELSE b

CTRFrictions ==
    {"missing_title", "duplicate_title", "missing_meta_description", "duplicate_meta_description"}
PageTwoFrictions == {"thin_content", "near_duplicate_content"}
InternalLinkFrictions == {"deep_page", "important_page_few_internal_links"}
AccessibilityFrictions == {"accessibility_image_alt", "accessibility_link_name"}

MinimumDays == 28

-----------------------------------------------------------------------------
(* Scores *)

\* _score_potential and _evidence_score
ScorePotential(impressions, threshold) ==
    AtMost(10000, 4000 + (6000 * AtLeast(0, impressions - threshold)) \div (threshold * 3))

EvidenceScore(impressions, days, threshold) ==
    AtMost(10000, 4000 + AtMost(3500, 2000 + (1500 * impressions) \div (threshold * 2))
                       + AtMost(2500, (2500 * days) \div MinimumDays))

\* calculate_opportunity_scores: little evidence caps the total.
Total(s) ==
    LET sum == (40 * s.potential + 25 * s.friction + 20 * s.evidence + 15 * s.feasibility) \div 100
    IN  IF s.evidence < 4000 THEN AtMost(sum, 3999)
        ELSE IF s.evidence < 6000 THEN AtMost(sum, 5999)
        ELSE sum

PriorityClass(s) ==
    CASE s.evidence < 4000 -> "insufficient_evidence"
      [] s.evidence >= 4000 /\ Total(s) >= 7500 -> "high_opportunity"
      [] s.evidence >= 4000 /\ Total(s) \in 5500 .. 7499 -> "opportunity"
      [] s.evidence >= 4000 /\ Total(s) \in 3500 .. 5499 -> "monitor"
      [] s.evidence >= 4000 /\ Total(s) < 3500 -> "insufficient_evidence"

Scores(potential, friction, evidence, feasibility) ==
    [potential |-> potential, friction |-> friction, evidence |-> evidence, feasibility |-> feasibility]

Evaluation(pattern, page, issues, days, s) ==
    [pattern |-> pattern, page |-> page, issues |-> issues, days |-> days,
     total |-> Total(s), class |-> PriorityClass(s)]

-----------------------------------------------------------------------------
(* The patterns of one page.  open are its open issues: their ids by type, and
   those reported with high confidence. *)

OpenOf(open, types) == UNION {open.ids[t] : t \in types \cap DOMAIN open.ids}

SearchPattern(pattern, p, open, types, days, threshold, friction, feasibility, f) ==
    {Evaluation(pattern, p, OpenOf(open, types), days,
                Scores(ScorePotential(f.impressions, threshold), friction,
                       EvidenceScore(f.impressions, days, threshold), feasibility))}

\* clicks / impressions < 0.025
LowCtr(f) == 40 * f.clicks < f.impressions

PagePatterns(p, f, open, days) ==
    LET has(types) == OpenOf(open, types) # {}
        confident == OpenOf(open, AccessibilityFrictions) \subseteq open.confident
    IN  (IF f.impressions >= 250 /\ f.position \in 40 .. 150 /\ LowCtr(f) /\ has(CTRFrictions)
         THEN SearchPattern("ctr", p, open, CTRFrictions, days, 250, 7500, 8500, f) ELSE {})
        \cup
        (IF /\ f.impressions >= 150 /\ f.position \in 110 .. 200 /\ has(PageTwoFrictions)
            /\ f.confidence >= 65 /\ f.intent \notin {"none", "uncertain", "mixed"}
         THEN SearchPattern("page_two", p, open, PageTwoFrictions, days, 150, 7000, 6000, f) ELSE {})
        \cup
        (IF f.impressions >= 150 /\ f.depth >= 4 /\ has(InternalLinkFrictions)
         THEN SearchPattern("internal_link", p, open, InternalLinkFrictions, days, 150,
                            AtMost(9000, 5500 + 500 * f.depth), 8000, f) ELSE {})
        \cup
        (IF f.important /\ has(AccessibilityFrictions)
         THEN {Evaluation("important_accessibility", p, OpenOf(open, AccessibilityFrictions), days,
                          Scores(AtLeast(7500, ScorePotential(f.impressions, 50)), 8500,
                                 IF confident THEN 7500 ELSE 5500, 6500))}
         ELSE {})

\* The pages that are looked at: with search results or an accessibility issue, that
\* answer, may be indexed and are more than a way to find others.
Candidate(f, open) ==
    /\ f.impressions > 0 \/ OpenOf(open, AccessibilityFrictions) # {}
    /\ f.active /\ f.indexable /\ f.status = 200 /\ ~ f.discoveryOnly

-----------------------------------------------------------------------------
(* Candidates for a test, from behaviour *)

\* testability_band, of which only "testable" weighs.
Testable(volume, events) == volume >= 300 /\ events >= 10

TestingCandidate(pattern, p, volume, events, days) ==
    Evaluation(pattern, p, {}, days,
               Scores(AtMost(10000, 5500 + 5 * volume), 7500,
                      IF Testable(volume, events) THEN 7500 ELSE 6000, 6000))

\* detect_underperforming_winners (of which the five largest): commercial pages
\* that convert at most 0.4 times as often as the website.
UnderperformingWinners(facts, days) ==
    LET visits == MapThenSumSet(LAMBDA p : facts[p].visits, DOMAIN facts)
        conversions == MapThenSumSet(LAMBDA p : facts[p].conversions, DOMAIN facts)
        losing(f) == /\ f.role \in {"convert", "support_choice"}
                     /\ f.visits >= 150 /\ f.impressions >= 250
                     /\ f.visits * conversions >= 3 * visits
                     /\ 10 * f.conversions * visits <= 4 * conversions * f.visits
    IN  IF visits < 500 \/ 200 * conversions < visits THEN {}
        ELSE {TestingCandidate("underperforming_winner", p, AtLeast(facts[p].visits, facts[p].impressions),
                               facts[p].conversions, days) : p \in {q \in DOMAIN facts : losing(facts[q])}}

\* journey_friction_candidates and intent_mismatch_candidates
JourneyFriction(facts, days) ==
    {TestingCandidate("journey_friction", p, facts[p].deadEnd, facts[p].continued, days)
        : p \in {q \in DOMAIN facts : facts[q].deadEnd > 0}}

IntentMismatch(facts, days) ==
    {TestingCandidate("intent_mismatch", p, facts[p].impressions, facts[p].clicks, days)
        : p \in {q \in DOMAIN facts : /\ facts[q].queryIntent \in {"prijs", "vergelijking", "geschiktheid"}
                                      /\ facts[q].intent = "informational"
                                      /\ facts[q].impressions >= 150}}

\* evaluate_website_opportunities; a test needs an active page only.
Evaluations(facts, open, days) ==
    UNION {PagePatterns(p, facts[p], open[p], days) : p \in {q \in DOMAIN facts : Candidate(facts[q], open[q])}}
    \cup {e \in UnderperformingWinners(facts, days) \cup JourneyFriction(facts, days)
                \cup IntentMismatch(facts, days) : facts[e.page].active}
=============================================================================
