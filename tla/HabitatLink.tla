------------------------------- MODULE HabitatLink -------------------------------
(***************************************************************************)
(* The homeowner's link (backend/nextgen/routes/habitat.py) and the        *)
(* composite score it shows (awe.py): a grant whose token opens the view,  *)
(* a rate limit in the memory of the server, and a view that is put        *)
(* together from what is approved, visible to the homeowner and backed by  *)
(* finalized evidence when it is read.                                     *)
(*                                                                         *)
(* One grant.  Time passes in ticks, of which WindowTicks are the window   *)
(* of the rate limit.  Scores are computed in hundredths, not in floats.   *)
(***************************************************************************)
EXTENDS Integers, Sequences, FiniteSets, FiniteSetsExt

CONSTANTS
    Readers,        \* requests under way
    Objects,        \* what may be approved: severity, priority, categories, visibility
    WindowTicks,    \* _RL_WINDOW_S
    RlMax,          \* _RL_MAX
    TtlTicks,       \* how long the grant lives
    MaxTicks,
    MaxReboots,     \* of the server
    MaxReads        \* Init gives it to readsLeft or withholds it

ASSUME LinkAssumption ==
    /\ WindowTicks > 0
    /\ {WindowTicks, RlMax, TtlTicks, MaxTicks, MaxReboots, MaxReads} \subseteq Nat
    /\ \A o \in Objects : o.impact \subseteq {"air", "water", "energy"} /\ o.homeowner \in BOOLEAN

VARIABLES
    now,
    grant,          \* its state, and how often it was used
    bucket,         \* times of the requests in the window, as the server remembers them
    cleared,        \* objects that are approved or committed
    finalized,      \* objects all of whose evidence is in a finalized package
    reader,         \* the step of each request
    served,         \* history: when the requests that were let through arrived
    page,           \* the last page that was shown
    reboots,
    readsLeft

linkVars == <<now, grant, bucket, cleared, finalized, reader, served, page, reboots, readsLeft>>

----------------------------------------------------------------------------
(* compute_composite *)

Categories == {"air", "water", "energy"}

Penalty == [INFORMATIONAL |-> 1, MINOR |-> 4, MODERATE |-> 10, MAJOR |-> 22, CRITICAL |-> 40]

Weight == [IMMEDIATE |-> 120, URGENT |-> 110, IMPORTANT |-> 100, SCHEDULE |-> 85, MONITOR |-> 65]

ASSUME ObjectAssumption ==
    \A o \in Objects : o.severity \in DOMAIN Penalty /\ o.priority \in DOMAIN Weight

\* round: half to even.
Rounded(x) ==
    LET q == x \div 100
        r == x % 100
    IN IF r > 50 \/ (r = 50 /\ q % 2 = 1) THEN q + 1 ELSE q

Score(objects, category) ==
    LET met == {o \in objects : category \in o.impact}
        penalty == MapThenSumSet(LAMBDA o : Penalty[o.severity] * Weight[o.priority], met)
    IN Max({0, Rounded(10000 - penalty)})

\* Mutant of Composite: the three weights sum to 110.
CompositeOver(air, water, energy) == Rounded(30 * air + 40 * water + 40 * energy)

Composite(air, water, energy) == Rounded(30 * air + 40 * water + 30 * energy)

Completeness(objects) ==
    IF objects = {} THEN 0
    ELSE Rounded((10000 * Cardinality(objects \cap finalized)) \div Cardinality(objects))

----------------------------------------------------------------------------
NoView == [shown |-> {}, scores |-> [c \in Categories |-> 100], composite |-> 100,
           completeness |-> 0, backed |-> {}]

\* issue_habitat_link
LinkInit ==
    /\ now = 0 /\ grant = [revoked |-> FALSE, expires |-> TtlTicks, used |-> 0]
    /\ bucket = <<>> /\ cleared = {} /\ finalized = {}
    /\ reader = [r \in Readers |-> "idle"]
    /\ served = <<>> /\ page = NoView /\ reboots = 0

\* The bound on what happens beside the reads: there is one to come, or one begun.
UnderWay == readsLeft > 0 \/ \E r \in Readers : reader[r] # "idle"

Tick ==
    /\ now < MaxTicks /\ UnderWay /\ now' = now + 1
    /\ UNCHANGED <<grant, bucket, cleared, finalized, reader, served, page, reboots, readsLeft>>

RevokeGrant ==
    /\ UnderWay /\ ~grant.revoked /\ grant' = [grant EXCEPT !.revoked = TRUE]
    /\ UNCHANGED <<now, bucket, cleared, finalized, reader, served, page, reboots, readsLeft>>

----------------------------------------------------------------------------
(* _rate_limit and _resolve_token *)

Admits(n) == n <= RlMax

\* A request that is refused is counted too.
Arrive(r) ==
    /\ reader[r] = "idle" /\ readsLeft > 0
    /\ readsLeft' = readsLeft - 1
    /\ LET recent == Append(SelectSeq(bucket, LAMBDA t : now - t < WindowTicks), now)
       IN /\ bucket' = recent
          /\ IF Admits(Len(recent))
             THEN /\ reader' = [reader EXCEPT ![r] = "find"]
                  /\ served' = Append(served, now)
             ELSE UNCHANGED <<reader, served>>
    /\ UNCHANGED <<now, grant, cleared, finalized, page, reboots>>

FindGrant(r) ==
    /\ reader[r] = "find"
    /\ reader' = [reader EXCEPT ![r] =
                     IF grant.revoked \/ now > grant.expires THEN "idle" ELSE "use"]
    /\ UNCHANGED <<now, grant, bucket, cleared, finalized, served, page, reboots, readsLeft>>

\* A grant that was revoked meanwhile is used nevertheless.
UseGrant(r) ==
    /\ reader[r] = "use"
    /\ reader' = [reader EXCEPT ![r] = "page"]
    /\ grant' = [grant EXCEPT !.used = @ + 1]
    /\ UNCHANGED <<now, bucket, cleared, finalized, served, page, reboots, readsLeft>>

\* habitat_public_read: what the homeowner may see, whatever the audience of the grant.
ShowView(r) ==
    /\ reader[r] = "page"
    /\ reader' = [reader EXCEPT ![r] = "idle"]
    /\ LET shown == {o \in cleared : o.homeowner}
           scores == [c \in Categories |-> Score(shown, c)]
       IN page' = [shown |-> shown, scores |-> scores,
                   composite |-> Composite(scores["air"], scores["water"], scores["energy"]),
                   completeness |-> Completeness(shown), backed |-> shown \cap finalized]
    /\ UNCHANGED <<now, grant, bucket, cleared, finalized, served, reboots, readsLeft>>

----------------------------------------------------------------------------
(* What the other parts of the platform do meanwhile *)

Publish(o) ==
    /\ o \notin cleared /\ UnderWay /\ cleared' = cleared \cup {o}
    /\ UNCHANGED <<now, grant, bucket, finalized, reader, served, page, reboots, readsLeft>>

FinalizeEvidence(o) ==
    /\ o \in cleared \ finalized /\ UnderWay /\ finalized' = finalized \cup {o}
    /\ UNCHANGED <<now, grant, bucket, cleared, reader, served, page, reboots, readsLeft>>

Reboot ==
    /\ reboots < MaxReboots /\ UnderWay /\ reboots' = reboots + 1
    /\ bucket' = <<>>
    /\ reader' = [r \in Readers |-> "idle"]
    /\ UNCHANGED <<now, grant, cleared, finalized, served, page, readsLeft>>

LinkNext ==
    \/ Tick \/ RevokeGrant \/ Reboot
    \/ \E r \in Readers : Arrive(r) \/ FindGrant(r) \/ UseGrant(r) \/ ShowView(r)
    \/ \E o \in Objects : Publish(o) \/ FinalizeEvidence(o)

LinkSpec == LinkInit /\ [][LinkNext]_linkVars

----------------------------------------------------------------------------
(* Properties *)

\* In no window are more requests let through than the limit says, for every life of the
\* server, which forgets its count when it dies; and the grant counts no more uses than
\* requests were let through.
RateHolds ==
    /\ \A t \in 0 .. now :
          Cardinality({i \in DOMAIN served : served[i] <= t /\ t - served[i] < WindowTicks})
              <= RlMax * (1 + reboots)
    /\ grant.used <= Len(served)

\* The composite a homeowner sees lies among the three scores it is composed of, each in its
\* range however many findings are subtracted, and the evidence is called complete only if
\* no more of it is missing than rounding hides.
ScoresAgree ==
    /\ \A c \in Categories : page.scores[c] \in 0 .. 100
    /\ \E c, d \in Categories :
          page.scores[c] <= page.composite /\ page.composite <= page.scores[d]
    /\ page.completeness = 100 =>
          page.shown # {} /\ 200 * Cardinality(page.backed) >= 199 * Cardinality(page.shown)
    /\ page.shown # {} /\ page.backed = page.shown => page.completeness = 100
=============================================================================
