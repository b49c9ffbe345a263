----------------------------- MODULE Onboarding -----------------------------
(***************************************************************************)
(* The onboarding of a website: proof that its owner asks for it, and then   *)
(* its first crawl (services/website_onboarding.py, api/routes/onboarding.py *)
(* and update_website of api/routes/websites.py).                           *)
(*                                                                         *)
(* A check holds the locks of its rows while it fetches the file; a request  *)
(* for the first crawl reads the onboarding before it takes the lock, and    *)
(* keeps what it read: the session does not load a row again.                *)
(*                                                                         *)
(* Abstractions.  One website; the crawl itself is CrawlControl, here its    *)
(* job moves by itself; a drain refuses a request and has no effect;         *)
(* platforms, preferences, names and the packed plugin are left out.         *)
(***************************************************************************)
EXTENDS RqJobs

CONSTANTS
    Urls,       \* base URLs
    Tokens      \* bound: verification files handed out

ASSUME OnboardingAssumption == Tokens \in Nat \ {0} /\ Urls # {} /\ "none" \notin Urls

VARIABLES
    site,           \* the Website row
    onboarding,     \* the WebsiteOnboarding row
    proof,          \* the WebsiteOwnershipVerification row
    firstJobs,      \* statuses of the crawl jobs made as first crawl
    checking,       \* the check that fetches: the URL it read
    starting,       \* requests for the first crawl that have read the onboarding
    placed,         \* the file at a URL: a token, or 0
    proven          \* history: the URL at which the file was found

onboardingVars == <<site, onboarding, proof, firstJobs, checking, starting, placed, proven>>

JobStatuses ==
    {"waiting_for_capacity", "pending", "running", "succeeded", "failed", "cancelled"}
OnboardingStatuses ==
    {"none", "verification_pending", "verified", "crawl_queued", "completed", "failed"}

OnboardingTypeOK ==
    /\ site \in [url : Urls, active : BOOLEAN, patched : BOOLEAN]
    /\ onboarding \in [status : OnboardingStatuses, crawl : Nat]
    /\ onboarding.crawl \in 0..Len(firstJobs)
    /\ proof \in [status : {"pending", "verified", "expired"}, token : 0..Tokens, due : BOOLEAN]
    /\ firstJobs \in Seq(JobStatuses)
    /\ checking \subseteq Urls
    /\ starting \in Seq({0})
    /\ placed \in [Urls -> 0..Tokens]
    /\ proven \in Urls \union {"none"}

OnboardingInit ==
    /\ site = [url |-> CHOOSE u \in Urls : TRUE, active |-> FALSE, patched |-> FALSE]
    /\ onboarding = [status |-> "none", crawl |-> 0]
    /\ proof = [status |-> "pending", token |-> 0, due |-> FALSE]
    /\ firstJobs = <<>>
    /\ checking = {}
    /\ starting = <<>>
    /\ placed = [u \in Urls |-> 0]
    /\ proven = "none"

Started == onboarding.status # "none"
Unlocked == Started /\ checking = {}

\* start_website_onboarding; the same request again finds the row.
StartOnboarding(u) ==
    /\ "onboarding" \in Here.events
    /\ ~Started
    /\ site' = [site EXCEPT !.url = u]
    /\ onboarding' = [onboarding EXCEPT !.status = "verification_pending"]
    /\ proof' = [proof EXCEPT !.token = 1]
    /\ UNCHANGED <<firstJobs, checking, starting, placed, proven>>

\* The owner of a site places the file that was handed out, or removes it.
PlaceFile(u, token) ==
    /\ Started
    /\ token <= proof.token
    /\ placed[u] # token
    /\ placed' = [placed EXCEPT ![u] = token]
    /\ UNCHANGED <<site, onboarding, proof, firstJobs, checking, starting, proven>>

\* VERIFICATION_TTL_DAYS have passed.
FileExpires ==
    /\ Started
    /\ proof.status = "pending" /\ ~proof.due
    /\ proof' = [proof EXCEPT !.due = TRUE]
    /\ UNCHANGED <<site, onboarding, firstJobs, checking, starting, placed, proven>>

\* Variant: the details may change after the verification.
ChangeVerified(u) ==
    /\ Unlocked
    /\ onboarding.crawl = 0
    /\ site.url # u
    /\ site' = [site EXCEPT !.url = u]
    /\ UNCHANGED <<onboarding, proof, firstJobs, checking, starting, placed, proven>>

\* update_website_onboarding_details: the token stays.
ChangeDetails(u) ==
    /\ Unlocked
    /\ proof.status # "verified" /\ onboarding.crawl = 0
    /\ site.url # u
    /\ site' = [site EXCEPT !.url = u]
    /\ UNCHANGED <<onboarding, proof, firstJobs, checking, starting, placed, proven>>

\* update_website: no onboarding is looked at.
Patch(u, active) ==
    /\ "patch" \in Here.events
    /\ Started
    /\ site' = [url |-> u, active |-> active, patched |-> site.patched \/ u # site.url]
    /\ site' # site
    /\ UNCHANGED <<onboarding, proof, firstJobs, checking, starting, placed, proven>>

\* renew_website_verification_file, also for the plugin.
Renew ==
    /\ Unlocked
    /\ proof.status # "verified"
    /\ proof.token < Tokens
    /\ proof' = [status |-> "pending", token |-> proof.token + 1, due |-> FALSE]
    /\ onboarding' = [onboarding EXCEPT !.status = "verification_pending"]
    /\ UNCHANGED <<site, firstJobs, checking, starting, placed, proven>>

\* check_website_ownership: a file that is too old is not fetched.
CheckExpired ==
    /\ Unlocked
    /\ proof.status # "verified" /\ proof.due
    /\ proof' = [proof EXCEPT !.status = "expired"]
    /\ UNCHANGED <<site, onboarding, firstJobs, checking, starting, placed, proven>>

CheckBegins ==
    /\ Unlocked
    /\ proof.status # "verified" /\ ~proof.due
    /\ checking' = {site.url}
    /\ UNCHANGED <<site, onboarding, proof, firstJobs, starting, placed, proven>>

\* The file has the newest token: _valid_file_content.
CheckSucceeds(u) ==
    /\ placed[u] = proof.token
    /\ proof' = [proof EXCEPT !.status = "verified"]
    /\ onboarding' = [onboarding EXCEPT !.status = "verified"]
    /\ site' = [site EXCEPT !.active = TRUE]
    /\ proven' = u
    /\ checking' = {}
    /\ UNCHANGED <<firstJobs, starting, placed>>

\* Another file, none, another site or no answer.
CheckFails ==
    /\ checking # {}
    /\ checking' = {}
    /\ UNCHANGED <<site, onboarding, proof, firstJobs, starting, placed, proven>>

-----------------------------------------------------------------------------
(* The first crawl *)

\* _authorized_onboarding reads the row; only one that has no crawl matters later.
AskCrawl ==
    /\ Started
    /\ onboarding.crawl = 0
    /\ Len(starting) < Here.overlap
    /\ starting' = Append(starting, onboarding.crawl)
    /\ UNCHANGED <<site, onboarding, proof, firstJobs, checking, placed, proven>>

\* start_first_onboarding_crawl: the lock is there, the row is the one that was read;
\* the verification is read now.
StartCrawl ==
    /\ Unlocked
    /\ starting # <<>>
    /\ starting' = Tail(starting)
    /\ IF proof.status = "verified"
       THEN /\ \E queued \in {"pending", "waiting_for_capacity"} :
                  firstJobs' = Append(firstJobs, queued)
            /\ onboarding' = [status |-> "crawl_queued", crawl |-> Len(firstJobs) + 1]
       ELSE UNCHANGED <<onboarding, firstJobs>>
    /\ UNCHANGED <<site, proof, checking, placed, proven>>

\* retry_first_onboarding_crawl: the same job again.
RetryCrawl ==
    /\ Unlocked
    /\ onboarding.crawl # 0
    /\ firstJobs[onboarding.crawl] \in {"failed", "cancelled"}
    /\ \E queued \in {"pending", "waiting_for_capacity"} :
          firstJobs' = [firstJobs EXCEPT ![onboarding.crawl] = queued]
    /\ onboarding' = [onboarding EXCEPT !.status = "crawl_queued"]
    /\ UNCHANGED <<site, proof, checking, starting, placed, proven>>

\* reconcile_onboarding_crawl_status, when someone looks.
Shown(job) ==
    CASE job = "succeeded" -> "completed"
      [] job \in {"failed", "cancelled"} -> "failed"
      [] OTHER -> "crawl_queued"

Reconcile ==
    /\ Unlocked
    /\ onboarding.crawl # 0
    /\ onboarding' = [onboarding EXCEPT !.status = Shown(firstJobs[onboarding.crawl])]
    /\ onboarding' # onboarding
    /\ UNCHANGED <<site, proof, firstJobs, checking, starting, placed, proven>>

\* What CrawlControl does with a job.
JobMoves(j) ==
    /\ \E to \in CASE firstJobs[j] = "waiting_for_capacity" -> {"pending", "cancelled"}
                   [] firstJobs[j] = "pending" -> {"running", "cancelled"}
                   [] firstJobs[j] = "running" -> {"succeeded", "failed", "cancelled"}
                   [] OTHER -> {} :
          firstJobs' = [firstJobs EXCEPT ![j] = to]
    /\ UNCHANGED <<site, onboarding, proof, checking, starting, placed, proven>>

OnboardingStep ==
    \/ FileExpires \/ Renew \/ CheckExpired \/ CheckBegins \/ CheckFails
    \/ AskCrawl \/ StartCrawl \/ RetryCrawl \/ Reconcile
    \/ \E u \in checking : CheckSucceeds(u)
    \/ \E u \in Urls : \/ StartOnboarding(u) \/ ChangeDetails(u)
                       \/ \E token \in 0..Tokens : PlaceFile(u, token)
                       \/ \E active \in BOOLEAN : Patch(u, active)
    \/ \E j \in DOMAIN firstJobs : JobMoves(j)

OnboardingNext == OnboardingStep /\ UNCHANGED <<rqVars, systemVars>>

-----------------------------------------------------------------------------
(* Properties *)

\* A first crawl is made only for a website whose owner showed the file at the URL that
\* is crawled, whatever was changed, renewed or checked at the same time; only a later
\* change of the website itself, which asks for no proof, gives it another URL.
CrawlIsProven ==
    /\ firstJobs # <<>> => proof.status = "verified"
    /\ proof.status = "verified" /\ ~site.patched => site.url = proven
=============================================================================
