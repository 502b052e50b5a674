------------------------------- MODULE ModAlerts -------------------------------
(***************************************************************************)
(* Telegram alerts of new reports and moderation mail (bubbles.go:487-491, *)
(* 530-539, 576-682): what the poll job remembers of each subforum between *)
(* scrapes, and the forum, where reports are filed, and closed by          *)
(* moderators, between and during them.  A client has one poll job at a    *)
(* time (PollQueue).                                                       *)
(***************************************************************************)
EXTENDS ModSettings

CONSTANTS Reports               \* keys of reports, a thread and a post

ASSUME AlertsAssumption == IsFiniteSet(Reports) /\ "none" \notin Slugs

VARIABLES
    open,               \* subforum -> its pending reports
    prev, keys,         \* bp.prevMod (its reports), bp.prevReports of the client
    check               \* the poll job in checkMod, or none

\* What properties compare with.
VARIABLES
    seen,               \* subforum -> its reports when it was last scraped
    closed,             \* subforums where a report was closed since
    told,               \* reports that an alert told of, or could not
    named, ever         \* open reports alerted: by this process, by any

jobState   == <<prev, keys, check>>
ghostState == <<seen, closed, told, named, ever>>
vars == <<settingVars, open, jobState, ghostState>>

All == Slugs \X Reports
Of(g, R) == {g} \X R
NoCheck == [at |-> "idle", todo |-> {}, slug |-> "none", new |-> {}]

Init ==
    /\ SettingsInit
    /\ open = [g \in Slugs |-> {}]
    /\ prev = [g \in Slugs |-> 0] /\ keys = [g \in Slugs |-> {}]
    /\ check = NoCheck
    /\ seen = [g \in Slugs |-> {}] /\ closed = {}
    /\ told = {} /\ named = {} /\ ever = {}

------------------------------------------------------------------------------
(* The forum.                                                              *)
File(g, x) ==
    /\ x \notin open[g] /\ open' = [open EXCEPT ![g] = @ \cup {x}]
    /\ UNCHANGED <<settingVars, jobState, ghostState>>

Close(g, x) ==
    /\ x \in open[g] /\ open' = [open EXCEPT ![g] = @ \ {x}]
    /\ closed' = closed \cup {g}
    /\ named' = named \ {<<g, x>>} /\ ever' = ever \ {<<g, x>>}
    /\ UNCHANGED <<settingVars, jobState, seen, told>>

------------------------------------------------------------------------------
(* runCheckMod and checkMod: the subforums subscribed to now, in turn.     *)
CheckBegin ==
    /\ check.at = "idle" /\ forums # {}
    /\ check' = [NoCheck EXCEPT !.at = "next", !.todo = forums]
    /\ UNCHANGED <<settingVars, open, prev, keys, ghostState>>

Left(g) ==
    check' = IF check.todo = {g} THEN NoCheck
             ELSE [NoCheck EXCEPT !.at = "next", !.todo = check.todo \ {g}]

(* The scrape fails, or finds that the user is no moderator here.          *)
Skip(g) ==
    /\ check.at = "next" /\ g \in check.todo /\ Left(g)
    /\ UNCHANGED <<settingVars, open, prev, keys, ghostState>>

(* The counter that the page of the subforum shows.                        *)
FetchModBubbles(g) == Cardinality(open[g])

(* Mutant: the counters add up.                                            *)
RemembersSum(g) == prev' = [prev EXCEPT ![g] = @ + FetchModBubbles(g)]

Remembers(g) == prev' = [prev EXCEPT ![g] = FetchModBubbles(g)]

(* A subforum seen for the first time counted zero before.                 *)
Scrape(g) ==
    /\ check.at = "next" /\ g \in check.todo
    /\ check' = [check EXCEPT !.slug = g,
                     !.at = IF FetchModBubbles(g) > prev[g] THEN "reports" ELSE "mail"]
    /\ Remembers(g)
    /\ seen' = [seen EXCEPT ![g] = open[g]]
    /\ closed' = closed \ {g}
    /\ told' = IF g \in closed THEN told \cup Of(g, open[g] \ seen[g]) ELSE told
    /\ UNCHANGED <<settingVars, open, keys, named, ever>>

(* The keys of its page of reports.                                        *)
FetchModReports(g) == open[g]

(* Mutant: only what is new is remembered.                                 *)
KeepsNew(g) == FetchModReports(g) \ keys[g]

KeepsAll(g) == FetchModReports(g)

(* handleNewReports: the reports as they are by now, or an error.          *)
ReadReports ==
    LET g == check.slug IN
    /\ check.at = "reports"
    /\ \/ /\ check' = [check EXCEPT !.at = "alert", !.new = FetchModReports(g) \ keys[g]]
          /\ keys' = [keys EXCEPT ![g] = KeepsAll(g)]
          /\ told' = told \cup Of(g, seen[g] \ open[g])
       \/ check' = [check EXCEPT !.at = "alert"] /\ UNCHANGED <<keys, told>>
    /\ UNCHANGED <<settingVars, open, prev, seen, closed, named, ever>>

(* Mutant: without a new key nothing is sent.                              *)
TellsNew(g) == Of(g, check.new)

(* Each new report, or without any, and after an error, that there are     *)
(* some.                                                                   *)
Tells(g) == IF check.new = {} THEN Of(g, seen[g]) ELSE Of(g, check.new)

(* SendModAlert; a chat that cannot be reached is not tried again.         *)
SendAlert ==
    LET g == check.slug  still == Of(g, check.new \cap open[g]) IN
    /\ check.at = "alert" /\ check' = [check EXCEPT !.at = "mail", !.new = {}]
    /\ told' = told \cup Tells(g)
    /\ \/ chats # {} /\ named' = named \cup still /\ ever' = ever \cup still
       \/ UNCHANGED <<named, ever>>
    /\ UNCHANGED <<settingVars, open, prev, keys, seen, closed>>

(* Moderation mail, counted and alerted in the same way; then the next     *)
(* subforum.                                                               *)
CheckMail ==
    /\ check.at = "mail" /\ Left(check.slug)
    /\ UNCHANGED <<settingVars, open, prev, keys, ghostState>>

(* A restart forgets what was seen: loadModState starts empty.             *)
Reboot ==
    /\ Restart
    /\ prev' = [g \in Slugs |-> 0] /\ keys' = [g \in Slugs |-> {}] /\ check' = NoCheck
    /\ seen' = [g \in Slugs |-> {}] /\ named' = {}
    /\ UNCHANGED <<open, closed, told, ever>>

------------------------------------------------------------------------------
Next ==
    \/ Settings /\ UNCHANGED <<open, jobState, ghostState>>
    \/ \E g \in Slugs :
          \/ \E x \in Reports : File(g, x) \/ Close(g, x)
          \/ Skip(g) \/ Scrape(g)
    \/ CheckBegin \/ ReadReports \/ SendAlert \/ CheckMail \/ Reboot

Spec == Init /\ [][Next]_vars

------------------------------------------------------------------------------
TypeOK ==
    /\ SettingsTypeOK
    /\ open \in [Slugs -> SUBSET Reports]
    /\ prev \in [Slugs -> 0..Cardinality(Reports)]
    /\ keys \in [Slugs -> SUBSET Reports] /\ seen \in [Slugs -> SUBSET Reports]
    /\ check \in [at : {"idle", "next", "reports", "alert", "mail"}, todo : SUBSET Slugs,
                  slug : Slugs \cup {"none"}, new : SUBSET Reports]
    /\ check.at \in {"reports", "alert", "mail"} => check.slug \in check.todo
    /\ closed \subseteq Slugs
    /\ told \subseteq All /\ ever \subseteq All /\ named \subseteq ever

(***************************************************************************)
(* "Fires a Telegram alert when a counter increases" (bubbles.go:576-577): *)
(* between checks, every report that the last scrape counted was told of,  *)
(* by name or by number, unless the forum had closed another one, which    *)
(* hides it in the count, or closed it before its name was read.           *)
(***************************************************************************)
NothingMissed == \A g \in Slugs : check.slug # g => Of(g, seen[g]) \subseteq told

(***************************************************************************)
(* "A detailed Telegram alert for each genuinely new report"               *)
(* (bubbles.go:630-631): while a report stays open it is not alerted again *)
(* by the same process, whatever fails and is filed or closed around it.   *)
(***************************************************************************)
NoRepeat == [][SendAlert => Of(check.slug, check.new) \cap named = {}]_vars

(***************************************************************************)
(* "So a restart never re-alerts on reports or messages that were already  *)
(* surfaced" (bubbles.go:121-122; in other words mod_state.go:3-5).        *)
(***************************************************************************)
NeverAgain == [][SendAlert => Of(check.slug, check.new) \cap ever = {}]_vars

==============================================================================
