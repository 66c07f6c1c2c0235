---------------------------- MODULE LegacyPassport ----------------------------
(***************************************************************************)
(* The passport of the contractor platform (backend/routes/passport.py)    *)
(* and everything that writes its ledger: claim snapshots, carrier         *)
(* co-signatures, and the storm watcher in the background.                 *)
(*                                                                         *)
(* Every writer reads the document, may wait for a weather archive or a    *)
(* language model, appends to the ledger it read and writes all of it      *)
(* back, by passport_id alone.  No index makes passport_id unique.         *)
(*                                                                         *)
(* An entry's hash covers its content, its time and the previous hash; it  *)
(* is represented by its order among the entries ever made.                *)
(***************************************************************************)
EXTENDS Integers, FiniteSets, SequencesExt

CONSTANTS
    Callers,        \* requests under way, the watcher among them
    Tokens,         \* co-signature tokens yet to be minted
    Nobody,         \* no token
    ArchiveDelay,   \* days until the weather archive knows a day (4)
    LookBack,       \* days a query may span (30)
    MaxDay,         \* last day of a behaviour
    MaxOutages,     \* how often the weather archive does not answer
    MaxWrites       \* Init gives it to writesLeft or withholds it

ASSUME LegacyAssumption ==
    /\ {ArchiveDelay, MaxDay, MaxOutages, MaxWrites} \subseteq Nat
    /\ LookBack \in Nat \ {0}
    /\ Nobody \notin Tokens

VARIABLES
    passports,      \* the documents of one passport_id; find_one returns the first
    cosign,         \* claim_cosigns: "none", "open" or "signed" for each token
    checkups,       \* calendar_events of the watcher, by the storm's day
    sky,            \* external: today, the stormy days, the outages so far
    stamp,          \* entries made so far
    call,           \* the step of each caller and what it holds
    writesLeft

legacyVars == <<passports, cosign, checkups, sky, stamp, call, writesLeft>>

----------------------------------------------------------------------------
CallSteps == {"idle", "issue", "append", "sweep", "checkup", "scans", "reread", "claim",
              "request", "diff", "mint", "announce", "sign", "load", "endorse"}

Events == {"BASELINE", "STORM", "AUDIT", "NOTE", "CLAIM", "REQUESTED", "SIGNED"}

Days == -LookBack .. MaxDay

Entry == [event : Events, about : Days \cup Tokens \cup {Nobody}, hash : Nat, prev : Nat]

Idle == [step |-> "idle", rec |-> <<>>, since |-> 0, found |-> {}, rec2 |-> <<>>,
         token |-> Nobody]

LegacyTypeOK ==
    /\ \A i \in DOMAIN passports :
          /\ passports[i].ledger \in Seq(Entry)
          /\ passports[i].scans \in BOOLEAN /\ passports[i].checked \in Days
    /\ cosign \in [Tokens -> {"none", "open", "signed"}]
    /\ checkups \subseteq Days
    /\ \A c \in Callers :
          /\ call[c].step \in CallSteps /\ call[c].token \in Tokens \cup {Nobody}
          /\ call[c].since \in Days /\ call[c].found \subseteq Days
          /\ call[c].rec \in Seq(Entry) /\ call[c].rec2 \in Seq(Entry)

LegacyInit ==
    /\ passports = <<>>
    /\ cosign = [t \in Tokens |-> "none"]
    /\ checkups = {}
    /\ sky = [today |-> 0, storms |-> {}, outages |-> 0]
    /\ stamp = 0
    /\ call = [c \in Callers |-> Idle]

----------------------------------------------------------------------------
(* The ledger *)

Hash(ledger) == IF ledger = <<>> THEN 0 ELSE Last(ledger).hash

\* What a call appends, one entry after the other, each over the hash before it.
AppendLedger(ledger, news) ==
    ledger \o [i \in DOMAIN news |->
                 [event |-> news[i].event, about |-> news[i].about, hash |-> stamp + i,
                  prev |-> IF i = 1 THEN Hash(ledger) ELSE stamp + i - 1]]

Of(event, about) == [event |-> event, about |-> about]

ChainVerified(ledger) ==
    \A i \in DOMAIN ledger : ledger[i].prev = IF i = 1 THEN 0 ELSE ledger[i - 1].hash

StormDays(ledger) ==
    {ledger[i].about : i \in {j \in DOMAIN ledger : ledger[j].event = "STORM"}}

\* Mutant of SaveLedger: only what is new is pushed to the ledger as it is now.
PushLedger(rec, news) ==
    /\ passports' = [passports EXCEPT ![1].ledger =
                        @ \o SubSeq(AppendLedger(rec, news), Len(rec) + 1, Len(rec) + Len(news))]
    /\ stamp' = stamp + Len(news)

SaveLedger(rec, news) ==
    /\ passports' = [passports EXCEPT ![1].ledger = AppendLedger(rec, news)]
    /\ stamp' = stamp + Len(news)

----------------------------------------------------------------------------
Start(c, holding) ==
    /\ call[c] = Idle
    /\ writesLeft > 0
    /\ writesLeft' = writesLeft - 1
    /\ call' = [call EXCEPT ![c] = holding]
    /\ UNCHANGED <<passports, cosign, checkups, sky, stamp>>

Hold(c, from, holding) ==
    /\ call[c].step = from
    /\ call' = [call EXCEPT ![c] = holding]
    /\ UNCHANGED <<sky, writesLeft>>

Done(c, from) == Hold(c, from, Idle)

----------------------------------------------------------------------------
(* Weather, external: a day passes (as long as a request may follow); the archive knows  *)
(* the days long enough ago                                                             *)

DayPasses ==
    /\ writesLeft > 0
    /\ sky.today < MaxDay
    /\ \E storm \in BOOLEAN :
          sky' = [sky EXCEPT !.today = @ + 1,
                             !.storms = IF storm THEN @ \cup {sky.today} ELSE @]
    /\ UNCHANGED <<passports, cosign, checkups, stamp, call, writesLeft>>

ArchiveEnd == sky.today - ArchiveDelay

Later(a, b) == IF a > b THEN a ELSE b

\* The answer to a query; none when the archive cannot be reached.
Archive(first, outage) ==
    IF outage THEN {} ELSE {d \in sky.storms : first <= d /\ d <= ArchiveEnd}

Reached(outage) ==
    /\ outage => sky.outages < MaxOutages
    /\ sky' = [sky EXCEPT !.outages = IF outage THEN @ + 1 ELSE @]

Storms(days) == [i \in 1 .. Cardinality(days) |-> Of("STORM", SetToSortSeq(days, <)[i])]

----------------------------------------------------------------------------
(* issue_passport *)

BeginIssue(c) ==
    /\ passports = <<>>
    /\ Start(c, [Idle EXCEPT !.step = "issue"])

\* After the weather of the last days; of which a passport is given the four strongest.
SaveIssue(c) ==
    /\ call[c].step = "issue"
    /\ call' = [call EXCEPT ![c] = Idle]
    /\ \E outage \in BOOLEAN :
          LET news == <<Of("BASELINE", Nobody)>> \o Storms(Archive(ArchiveEnd - LookBack + 1, outage))
                        \o <<Of("AUDIT", Nobody)>>
          IN /\ Reached(outage)
             /\ passports' = Append(passports, [ledger |-> AppendLedger(<<>>, news),
                                                scans |-> FALSE, checked |-> -LookBack])
             /\ stamp' = stamp + Len(news)
    /\ UNCHANGED <<cosign, checkups, writesLeft>>

----------------------------------------------------------------------------
(* append_event *)

\* Of the events that may be appended those that nobody reads count as one; a storm is
\* appended without the day it is about.
BeginAppend(c) ==
    /\ passports # <<>>
    /\ Start(c, [Idle EXCEPT !.step = "append", !.rec = passports[1].ledger])

SaveAppend(c) ==
    /\ Done(c, "append")
    /\ \E event \in {"NOTE", "STORM"} : SaveLedger(call[c].rec, <<Of(event, Nobody)>>)
    /\ UNCHANGED <<cosign, checkups>>

----------------------------------------------------------------------------
(* storm_watcher_sweep: every document is swept, and the first one written *)

BeginSweep(c) ==
    \E i \in DOMAIN passports :
        Start(c, [Idle EXCEPT !.step = "sweep", !.rec = passports[i].ledger,
                              !.since = passports[i].checked])

\* The first day of the query.
SweepStart(since) == Later(since, ArchiveEnd - LookBack + 1)

NewStorms(rec, found) == found \ StormDays(rec)

\* What was found is recorded and the query's day moves to today, found or not.  The days on
\* the ledger are put together with texts: one that is missing raises, before any write.
SaveSweep(c) ==
    /\ call[c].step = "sweep"
    /\ Nobody \notin StormDays(call[c].rec)
    /\ \E outage \in BOOLEAN :
          LET new == NewStorms(call[c].rec, Archive(SweepStart(call[c].since), outage))
          IN /\ Reached(outage)
             /\ passports' = [passports EXCEPT ![1].ledger = AppendLedger(call[c].rec, Storms(new)),
                                               ![1].checked = sky.today]
             /\ stamp' = stamp + Cardinality(new)
             /\ call' = [call EXCEPT ![c] =
                    IF new = {} THEN Idle
                    ELSE [Idle EXCEPT !.step = "checkup", !.found = new]]
    /\ UNCHANGED <<cosign, checkups, writesLeft>>

SaveCheckup(c) ==
    /\ Done(c, "checkup")
    /\ checkups' = checkups \cup call[c].found
    /\ UNCHANGED <<passports, cosign, stamp>>

----------------------------------------------------------------------------
(* seed_demo_scans, alone or from diff_baseline_vs_latest when scans are missing *)

BeginSeed(c) ==
    /\ passports # <<>>
    /\ Start(c, [Idle EXCEPT !.step = "scans"])

SaveScans(c) ==
    /\ Hold(c, "scans", [call[c] EXCEPT !.step = "reread"])
    /\ passports' = [passports EXCEPT ![1].scans = TRUE]
    /\ UNCHANGED <<cosign, checkups, stamp>>

ReadForClaim(c) ==
    /\ Hold(c, "reread", [call[c] EXCEPT !.step = "claim", !.rec2 = passports[1].ledger])
    /\ UNCHANGED <<passports, cosign, checkups, stamp>>

\* Then the request the scans were missing for goes on.
SaveClaim(c) ==
    /\ Hold(c, "claim", IF call[c].token = Nobody THEN Idle
                        ELSE [call[c] EXCEPT !.step = "mint", !.rec2 = <<>>])
    /\ SaveLedger(call[c].rec2, <<Of("CLAIM", Nobody)>>)
    /\ UNCHANGED <<cosign, checkups>>

----------------------------------------------------------------------------
(* request_cosign *)

BeginRequest(c) ==
    /\ passports # <<>>
    /\ Start(c, [Idle EXCEPT !.step = "request", !.rec = passports[1].ledger])

ReuseToken(c) ==
    /\ \E t \in Tokens : cosign[t] = "open"
    /\ Done(c, "request")
    /\ UNCHANGED <<passports, cosign, checkups, stamp>>

FindNoToken(c) ==
    /\ \A t \in Tokens : cosign[t] # "open"
    /\ \E t \in Tokens :
          /\ cosign[t] = "none" /\ \A d \in Callers : call[d].token # t
          /\ Hold(c, "request", [call[c] EXCEPT !.step = "diff", !.token = t])
    /\ UNCHANGED <<passports, cosign, checkups, stamp>>

Diff(c) ==
    /\ Hold(c, "diff", [call[c] EXCEPT !.step = IF passports[1].scans THEN "mint" ELSE "scans"])
    /\ UNCHANGED <<passports, cosign, checkups, stamp>>

MintToken(c) ==
    /\ Hold(c, "mint", [call[c] EXCEPT !.step = "announce"])
    /\ cosign' = [cosign EXCEPT ![call[c].token] = "open"]
    /\ UNCHANGED <<passports, checkups, stamp>>

\* Over the ledger read before the scans were made up.
SaveRequest(c) ==
    /\ Done(c, "announce")
    /\ SaveLedger(call[c].rec, <<Of("REQUESTED", call[c].token)>>)
    /\ UNCHANGED <<cosign, checkups>>

----------------------------------------------------------------------------
(* submit_cosign *)

BeginSubmit(c) ==
    \E t \in Tokens :
        /\ cosign[t] = "open"
        /\ Start(c, [Idle EXCEPT !.step = "sign", !.token = t])

\* Mutant of SignToken: the signature is left to the end.
SignNothing(c) ==
    /\ Hold(c, "sign", [call[c] EXCEPT !.step = "load"])
    /\ UNCHANGED <<passports, cosign, checkups, stamp>>

SignToken(c) ==
    /\ Hold(c, "sign", [call[c] EXCEPT !.step = "load"])
    /\ cosign' = [cosign EXCEPT ![call[c].token] = "signed"]
    /\ UNCHANGED <<passports, checkups, stamp>>

LoadForEndorsement(c) ==
    /\ Hold(c, "load", [call[c] EXCEPT !.step = "endorse", !.rec = passports[1].ledger])
    /\ UNCHANGED <<passports, cosign, checkups, stamp>>

SaveEndorsement(c) ==
    /\ Done(c, "endorse")
    /\ SaveLedger(call[c].rec, <<Of("SIGNED", call[c].token)>>)
    /\ UNCHANGED <<cosign, checkups>>

----------------------------------------------------------------------------
\* The process dies, or a service or the handler raises.
Vanish(c) ==
    /\ call[c] # Idle
    /\ Done(c, call[c].step)
    /\ UNCHANGED <<passports, cosign, checkups, stamp>>

LegacyNext ==
    \/ DayPasses
    \/ \E c \in Callers :
          \/ BeginIssue(c)   \/ SaveIssue(c)    \/ BeginAppend(c) \/ SaveAppend(c)
          \/ BeginSweep(c)   \/ SaveSweep(c)    \/ SaveCheckup(c)
          \/ BeginSeed(c)    \/ SaveScans(c)    \/ ReadForClaim(c) \/ SaveClaim(c)
          \/ BeginRequest(c) \/ ReuseToken(c)   \/ FindNoToken(c)  \/ Diff(c)
          \/ MintToken(c)    \/ SaveRequest(c)
          \/ BeginSubmit(c)  \/ SignToken(c)    \/ LoadForEndorsement(c) \/ SaveEndorsement(c)
          \/ Vanish(c)

LegacySpec == LegacyInit /\ writesLeft \in Nat /\ [][LegacyNext]_legacyVars

----------------------------------------------------------------------------
(* Properties *)

Ledgers == {passports[i].ledger : i \in DOMAIN passports}

\* /verify finds no ledger broken: writers overlap and overwrite each other, but each
\* writes a whole chain.
LegacyChainVerifies == \A ledger \in Ledgers : ChainVerified(ledger)

\* A storm is on a ledger once, whether issued with it or found by overlapping sweeps.
StormsOnce ==
    \A ledger \in Ledgers : \A i, j \in DOMAIN ledger :
        /\ ledger[i].event = "STORM" /\ ledger[j].event = "STORM"
        /\ ledger[i].about = ledger[j].about /\ ledger[i].about # Nobody
        => i = j

\* Who reads a carrier's signature on a ledger finds its token signed, and who reads a
\* request finds its token minted, wherever a submission broke off.
EndorsedAreSigned ==
    \A ledger \in Ledgers : \A i \in DOMAIN ledger :
        /\ ledger[i].event = "SIGNED" => cosign[ledger[i].about] = "signed"
        /\ ledger[i].event = "REQUESTED" => cosign[ledger[i].about] # "none"

\* storm_watcher.py: "appends a hash-chained STORM event to the ledger when new
\* high-impact weather ... is detected since the last poll".  A storm since the passport
\* was issued that the archive knew at the last sweep is on the ledger.
StormsReachLedger ==
    \A d \in sky.storms :
        passports # <<>> /\ d + ArchiveDelay <= passports[1].checked
        => d \in StormDays(passports[1].ledger)

\* An entry stays on the ledger (seed_demo_scans: "Drop a ledger entry recording the new
\* scan"); it does not, even for one caller: a co-signature request that has scans made up
\* writes the ledger it had read before.
EntriesStay ==
    [][passports # <<>> => IsPrefix(passports[1].ledger, passports'[1].ledger)]_passports
=============================================================================
