--------------------------- MODULE ModAlertsProofs ---------------------------
(***************************************************************************)
(* What ModSettings and ModAlerts promise, for every number of subforums,  *)
(* chats, requests, saving goroutines and reports, through restarts and    *)
(* failing writes: first the settings alone, then the alerts above them,   *)
(* a counted report is told of and an open one is named once.              *)
(***************************************************************************)
EXTENDS ModAlerts, FiniteSetTheorems, TLAPS

------------------------------------------------------------------------------
(* Two requests for one subforum are noticed, and the one about to write   *)
(* writes what it made of the map.                                         *)
Alone ==
    \A q, r \in Requests :
        q # r /\ req[q].at # "idle" /\ req[r].at # "idle" /\ req[q].slug = req[r].slug
            => req[q].slug \in unsure

AboutTo ==
    \A r \in Requests :
        /\ req[r].at # "idle" => req[r].slug \in Slugs
        /\ req[r].at = "write" /\ req[r].slug \notin unsure =>
              (req[r].slug \in forums) = (req[r].op = "add")

(* A save that runs alone has the chats as they are, once it copied them,   *)
(* and leaves the file torn until it has written them.                      *)
OneSave ==
    clash \/
        /\ \A g, h \in Saving : g = h
        /\ \A g \in Saving :
              /\ saver[g].at \in {"open", "write"} => saver[g].snap = chats
              /\ saver[g].at = "write" => file = Torn

(* An update is handled by registering its chat.                            *)
HandledRegistered == handled \subseteq chats

IInv ==
    /\ SettingsTypeOK /\ Alone /\ AboutTo /\ WriteThrough
    /\ OneSave /\ FileKeepsUp /\ HandledRegistered /\ MentionsKept

(* A list written over an empty file is read back (telegram.go:98-124).     *)
LEMMA OverlayEmpty == ASSUME NEW S \in SUBSET Chats PROVE Overlay(Torn, S) = Whole(S)
<1>1. IsFiniteSet(S)
  BY FS_Subset, SettingsAssumption
<1>2. Cardinality({}) = 0 /\ Cardinality(S) \in Nat
  BY <1>1, FS_EmptySet, FS_CardinalityType
<1>3. QED  BY <1>2 DEF Overlay, Torn

(* The file holds chats, whole or torn.                                     *)
LEMMA FileIds == SettingsTypeOK => file.ids \subseteq Chats
<1> SUFFICES ASSUME SettingsTypeOK PROVE file.ids \subseteq Chats
  OBVIOUS
<1>1. CASE file = Torn
  BY <1>1 DEF Torn
<1>2. CASE \E S \in SUBSET Chats : file = Whole(S)
  BY <1>2 DEF Whole
<1>3. QED  BY <1>1, <1>2 DEF SettingsTypeOK

(* The initial state satisfies the inductive invariant.                     *)
LEMMA InitIInv == SettingsInit => IInv
<1> SUFFICES ASSUME SettingsInit PROVE IInv
  OBVIOUS
<1> USE DEF SettingsInit, Free, NoSave
<1>1. SettingsTypeOK
  <2>1. Whole({}) \in {Whole(S) : S \in SUBSET Chats}
    OBVIOUS
  <2>2. 0 \in 0..MaxChanges
    BY SettingsAssumption
  <2>3. file \in {Torn} \cup {Whole(S) : S \in SUBSET Chats}
    BY <2>1
  <2>4. QED  BY <2>2, <2>3 DEF SettingsTypeOK
<1>2. Alone /\ AboutTo /\ WriteThrough
  BY DEF Alone, AboutTo, WriteThrough
<1>3. OneSave /\ FileKeepsUp
  BY DEF OneSave, FileKeepsUp, Saving, Whole
<1>4. HandledRegistered /\ MentionsKept
  BY DEF HandledRegistered, MentionsKept
<1>5. QED  BY <1>1, <1>2, <1>3, <1>4 DEF IInv

------------------------------------------------------------------------------
(* Every action keeps the types.                                            *)
LEMMA TypeStep ==
    ASSUME SettingsTypeOK, AboutTo, [SettingsNext]_settingVars
    PROVE  SettingsTypeOK'
<1> USE DEF SettingsTypeOK, AboutTo, forumVars, chatVars, Free, NoSave
<1>1. ASSUME NEW r \in Requests, NEW op \in {"add", "remove"}, NEW g \in Slugs, Submit(r, op, g)
      PROVE  SettingsTypeOK'
  BY <1>1, SettingsAssumption DEF Submit
<1>2. ASSUME NEW r \in Requests, NotModerator(r) PROVE SettingsTypeOK'
  BY <1>2 DEF NotModerator, Done
<1>3. ASSUME NEW r \in Requests, ChangeForums(r) PROVE SettingsTypeOK'
  BY <1>3 DEF ChangeForums, Done, With
<1>4. ASSUME NEW r \in Requests, WriteForums(r) PROVE SettingsTypeOK'
  BY <1>4 DEF WriteForums, Done, Written, With
<1>5. ASSUME NEW c \in Chats, Mention(c) PROVE SettingsTypeOK'
  BY <1>5 DEF Mention
<1>6. CASE GetUpdates
  BY <1>6 DEF GetUpdates, Confirms
<1>7. ASSUME NEW c \in Chats, NEW g \in Savers, HandleMessage(c, g) PROVE SettingsTypeOK'
  BY <1>7 DEF HandleMessage, Registers
<1>8. ASSUME NEW g \in Savers, Snapshot(g) PROVE SettingsTypeOK'
  BY <1>8 DEF Snapshot, updates
<1>9. ASSUME NEW g \in Savers, OpenFile(g) PROVE SettingsTypeOK'
  <2>1. saver' \in [Savers -> [at : {"idle", "snap", "open", "write"}, snap : SUBSET Chats]]
    BY <1>9 DEF OpenFile, SaveTo, SaveEnds
  <2>2. file' \in {Torn, file} /\ clash' \in BOOLEAN
    BY <1>9 DEF OpenFile
  <2>3. QED  BY <1>9, <2>1, <2>2 DEF OpenFile, updates
<1>10. ASSUME NEW g \in Savers, WriteFile(g) PROVE SettingsTypeOK'
  <2>1. saver' \in [Savers -> [at : {"idle", "snap", "open", "write"}, snap : SUBSET Chats]]
    BY <1>10 DEF WriteFile, SaveEnds
  <2>2. saver[g].snap \in SUBSET Chats
    BY <1>10
  <2>3. file' \in {Torn, file} \cup {Whole(S) : S \in SUBSET Chats} /\ clash' \in BOOLEAN
    BY <1>10, <2>2 DEF WriteFile, Overlay
  <2>4. QED  BY <1>10, <2>1, <2>3 DEF WriteFile, updates
<1>11. CASE Restart
  <2>1. changes' \in 0..MaxChanges
    BY <1>11, SettingsAssumption DEF Restart
  <2>2. chats' \subseteq Chats /\ lost' \subseteq Chats
    BY <1>11, FileIds DEF Restart
  <2>3. forums' \subseteq Slugs /\ unsure' \subseteq Slugs
    BY <1>11 DEF Restart
  <2>4. QED  BY <1>11, <2>1, <2>2, <2>3 DEF Restart
<1>12. CASE UNCHANGED settingVars
  BY <1>12 DEF settingVars
<1>13. QED
  BY <1>1, <1>2, <1>3, <1>4, <1>5, <1>6, <1>7, <1>8, <1>9, <1>10, <1>11, <1>12
     DEF SettingsNext, Settings

(* The map and the table of subforums.                                      *)
LEMMA ForumsStep ==
    ASSUME SettingsTypeOK, Alone, AboutTo, WriteThrough, [SettingsNext]_settingVars
    PROVE  (Alone /\ AboutTo /\ WriteThrough)'
<1> USE DEF SettingsTypeOK, Alone, AboutTo, WriteThrough, forumVars, chatVars, Free
<1>1. ASSUME NEW r \in Requests, NEW op \in {"add", "remove"}, NEW g \in Slugs, Submit(r, op, g)
      PROVE  (Alone /\ AboutTo /\ WriteThrough)'
  BY <1>1, SettingsAssumption DEF Submit
<1>2. ASSUME NEW r \in Requests, NotModerator(r) PROVE (Alone /\ AboutTo /\ WriteThrough)'
  BY <1>2 DEF NotModerator, Done
<1>3. ASSUME NEW r \in Requests, ChangeForums(r) PROVE (Alone /\ AboutTo /\ WriteThrough)'
  BY <1>3 DEF ChangeForums, Done, With
<1>4. ASSUME NEW r \in Requests, WriteForums(r) PROVE (Alone /\ AboutTo /\ WriteThrough)'
  BY <1>4 DEF WriteForums, Done, Written, With
<1>5. ASSUME NEW c \in Chats, Mention(c) PROVE (Alone /\ AboutTo /\ WriteThrough)'
  BY <1>5 DEF Mention
<1>6. CASE GetUpdates
  BY <1>6 DEF GetUpdates, Confirms
<1>7. ASSUME NEW c \in Chats, NEW g \in Savers, HandleMessage(c, g) PROVE (Alone /\ AboutTo /\ WriteThrough)'
  BY <1>7 DEF HandleMessage, Registers
<1>8. ASSUME NEW g \in Savers, Snapshot(g) PROVE (Alone /\ AboutTo /\ WriteThrough)'
  BY <1>8 DEF Snapshot, updates
<1>9. ASSUME NEW g \in Savers, OpenFile(g) PROVE (Alone /\ AboutTo /\ WriteThrough)'
  BY <1>9 DEF OpenFile, SaveTo, SaveEnds, updates
<1>10. ASSUME NEW g \in Savers, WriteFile(g) PROVE (Alone /\ AboutTo /\ WriteThrough)'
  BY <1>10, OverlayEmpty DEF WriteFile, SaveEnds, updates
<1>11. CASE Restart
  BY <1>11, SettingsAssumption DEF Restart
<1>12. CASE UNCHANGED settingVars
  BY <1>12 DEF settingVars
<1>13. QED
  BY <1>1, <1>2, <1>3, <1>4, <1>5, <1>6, <1>7, <1>8, <1>9, <1>10, <1>11, <1>12
     DEF SettingsNext, Settings

(* The chats and their file.                                                *)
LEMMA ChatsStep ==
    ASSUME SettingsTypeOK, OneSave, FileKeepsUp, [SettingsNext]_settingVars
    PROVE  (OneSave /\ FileKeepsUp)'
<1> USE DEF SettingsTypeOK, OneSave, FileKeepsUp, Saving, forumVars, chatVars, NoSave
<1>1. ASSUME NEW r \in Requests, NEW op \in {"add", "remove"}, NEW g \in Slugs, Submit(r, op, g)
      PROVE  (OneSave /\ FileKeepsUp)'
  BY <1>1, SettingsAssumption DEF Submit
<1>2. ASSUME NEW r \in Requests, NotModerator(r) PROVE (OneSave /\ FileKeepsUp)'
  BY <1>2 DEF NotModerator, Done
<1>3. ASSUME NEW r \in Requests, ChangeForums(r) PROVE (OneSave /\ FileKeepsUp)'
  BY <1>3 DEF ChangeForums, Done
<1>4. ASSUME NEW r \in Requests, WriteForums(r) PROVE (OneSave /\ FileKeepsUp)'
  BY <1>4 DEF WriteForums, Done
<1>5. ASSUME NEW c \in Chats, Mention(c) PROVE (OneSave /\ FileKeepsUp)'
  BY <1>5 DEF Mention
<1>6. CASE GetUpdates
  BY <1>6 DEF GetUpdates, Confirms
<1>7. ASSUME NEW c \in Chats, NEW g \in Savers, HandleMessage(c, g) PROVE (OneSave /\ FileKeepsUp)'
  BY <1>7 DEF HandleMessage, Registers
<1>8. ASSUME NEW g \in Savers, Snapshot(g) PROVE (OneSave /\ FileKeepsUp)'
  BY <1>8 DEF Snapshot, updates
<1>9. ASSUME NEW g \in Savers, OpenFile(g) PROVE (OneSave /\ FileKeepsUp)'
  BY <1>9 DEF OpenFile, SaveTo, SaveEnds, updates, Torn
<1>10. ASSUME NEW g \in Savers, WriteFile(g) PROVE (OneSave /\ FileKeepsUp)'
  <2> SUFFICES ASSUME ~clash' PROVE OneSave' /\ FileKeepsUp'
    BY DEF OneSave, FileKeepsUp
  <2>1. ~clash /\ file = Torn /\ saver[g].snap = chats /\ chats \in SUBSET Chats
    BY <1>10 DEF WriteFile
  <2>2. file' = Whole(chats)
    BY <1>10, <2>1, OverlayEmpty DEF WriteFile
  <2>3. Saving' = {} /\ chats' = chats
    BY <1>10, <2>1 DEF WriteFile, SaveEnds, updates
  <2>4. QED  BY <2>2, <2>3 DEF Whole
<1>11. CASE Restart
  BY <1>11, SettingsAssumption DEF Restart
<1>12. CASE UNCHANGED settingVars
  BY <1>12 DEF settingVars
<1>13. QED
  BY <1>1, <1>2, <1>3, <1>4, <1>5, <1>6, <1>7, <1>8, <1>9, <1>10, <1>11, <1>12
     DEF SettingsNext, Settings

(* The updates and the chats they are of.                                   *)
LEMMA MentionsStep ==
    ASSUME SettingsTypeOK, HandledRegistered, MentionsKept, [SettingsNext]_settingVars
    PROVE  (HandledRegistered /\ MentionsKept)'
<1> USE DEF SettingsTypeOK, HandledRegistered, MentionsKept, forumVars, chatVars
<1>1. ASSUME NEW r \in Requests, NEW op \in {"add", "remove"}, NEW g \in Slugs, Submit(r, op, g)
      PROVE  (HandledRegistered /\ MentionsKept)'
  BY <1>1, SettingsAssumption DEF Submit
<1>2. ASSUME NEW r \in Requests, NotModerator(r) PROVE (HandledRegistered /\ MentionsKept)'
  BY <1>2 DEF NotModerator, Done
<1>3. ASSUME NEW r \in Requests, ChangeForums(r) PROVE (HandledRegistered /\ MentionsKept)'
  BY <1>3 DEF ChangeForums, Done
<1>4. ASSUME NEW r \in Requests, WriteForums(r) PROVE (HandledRegistered /\ MentionsKept)'
  BY <1>4 DEF WriteForums, Done
<1>5. ASSUME NEW c \in Chats, Mention(c) PROVE (HandledRegistered /\ MentionsKept)'
  BY <1>5 DEF Mention
<1>6. CASE GetUpdates
  BY <1>6 DEF GetUpdates, Confirms
<1>7. ASSUME NEW c \in Chats, NEW g \in Savers, HandleMessage(c, g) PROVE (HandledRegistered /\ MentionsKept)'
  BY <1>7 DEF HandleMessage, Registers
<1>8. ASSUME NEW g \in Savers, Snapshot(g) PROVE (HandledRegistered /\ MentionsKept)'
  BY <1>8 DEF Snapshot, updates
<1>9. ASSUME NEW g \in Savers, OpenFile(g) PROVE (HandledRegistered /\ MentionsKept)'
  BY <1>9 DEF OpenFile, SaveTo, SaveEnds, updates
<1>10. ASSUME NEW g \in Savers, WriteFile(g) PROVE (HandledRegistered /\ MentionsKept)'
  BY <1>10, OverlayEmpty DEF WriteFile, SaveEnds, updates
<1>11. CASE Restart
  BY <1>11, SettingsAssumption DEF Restart
<1>12. CASE UNCHANGED settingVars
  BY <1>12 DEF settingVars
<1>13. QED
  BY <1>1, <1>2, <1>3, <1>4, <1>5, <1>6, <1>7, <1>8, <1>9, <1>10, <1>11, <1>12
     DEF SettingsNext, Settings

------------------------------------------------------------------------------
(* Every step keeps the inductive invariant.                                *)
LEMMA NextIInv == IInv /\ [SettingsNext]_settingVars => IInv'
BY TypeStep, ForumsStep, ChatsStep, MentionsStep DEF IInv

LEMMA Inductive == SettingsSpec => []IInv
<1>1. QED  BY InitIInv, NextIInv, PTL DEF SettingsSpec

(* Every variable keeps its type.                                           *)
THEOREM TypeCorrect == SettingsSpec => []SettingsTypeOK
<1>1. IInv => SettingsTypeOK
  BY DEF IInv
<1>2. QED  BY <1>1, Inductive, PTL

(* The map of mod forums is a write-through cache of its table              *)
(* (mod_forums.go:12-13), but for overlaps and failing writes.              *)
THEOREM CacheAgrees == SettingsSpec => []WriteThrough
<1>1. IInv => WriteThrough
  BY DEF IInv
<1>2. QED  BY <1>1, Inductive, PTL

(* The file holds the chats when nobody saves them (telegram.go:286-296).   *)
THEOREM FileAgrees == SettingsSpec => []FileKeepsUp
<1>1. IInv => FileKeepsUp
  BY DEF IInv
<1>2. QED  BY <1>1, Inductive, PTL

(* A chat that mentioned the bot is registered or still to be read, unless  *)
(* a restart forgot it (telegram.go:209-254).                               *)
THEOREM MentionKept == SettingsSpec => []MentionsKept
<1>1. IInv => MentionsKept
  BY DEF IInv
<1>2. QED  BY <1>1, Inductive, PTL

------------------------------------------------------------------------------
(* The alerts, on top of the settings.                                      *)
(* The steps of checkMod (bubbles.go:576-682).                              *)
Stage ==
    /\ check.at \in {"idle", "next"} => check.slug = "none"
    /\ check.at # "alert" => check.new = {}
    /\ check.at = "alert" => check.new \subseteq keys[check.slug]

(* The counter is that of the reports seen, of which none but a closed one  *)
(* is missing.                                                              *)
Counted ==
    \A g \in Slugs :
        /\ prev[g] = Cardinality(seen[g])
        /\ g \notin closed => seen[g] \subseteq open[g]

(* A report with a known key was told of, or is about to be.                *)
KeysTold ==
    \A g \in Slugs :
        Of(g, keys[g]) \subseteq told \cup (IF check.slug = g THEN Of(g, check.new) ELSE {})

SeenTold ==
    \A g \in Slugs :
        /\ check.slug # g \/ check.at = "mail" => Of(g, seen[g]) \subseteq told
        /\ check.slug = g /\ check.at = "alert" /\ check.new # {} =>
              Of(g, seen[g]) \subseteq told \cup Of(g, check.new)

(* A report named while it is open has a known key, and is not new.         *)
NamedKnown ==
    /\ \A g \in Slugs, x \in Reports : <<g, x>> \in named => x \in open[g] \cap keys[g]
    /\ check.at = "alert" => Of(check.slug, check.new) \cap named = {}

AlertsInv ==
    /\ IInv /\ TypeOK /\ Stage /\ Counted
    /\ KeysTold /\ SeenTold /\ NamedKnown

(* Subforums are told apart.                                                *)
LEMMA Pair == \A g, h, x, R : <<g, x>> \in Of(h, R) <=> g = h /\ x \in R
BY DEF Of

LEMMA CountType ==
    ASSUME TypeOK, NEW g \in Slugs
    PROVE  /\ FetchModBubbles(g) \in 0..Cardinality(Reports)
           /\ IsFiniteSet(open[g]) /\ IsFiniteSet(seen[g])
<1>1. open[g] \subseteq Reports /\ seen[g] \subseteq Reports
  BY DEF TypeOK
<1>2. QED  BY <1>1, AlertsAssumption, FS_Subset, FS_CardinalityType DEF FetchModBubbles

(* The initial state satisfies the inductive invariant.                     *)
LEMMA AlertsInit == Init => AlertsInv
<1> SUFFICES ASSUME Init PROVE AlertsInv
  OBVIOUS
<1> USE DEF Init, NoCheck
<1>1. IInv
  BY InitIInv
<1>2. 0 \in 0..Cardinality(Reports)
  BY FS_CardinalityType, AlertsAssumption
<1>3. TypeOK
  BY <1>1, <1>2 DEF TypeOK, IInv
<1>4. Stage /\ NamedKnown
  BY DEF Stage, NamedKnown
<1>5. Counted
  BY FS_EmptySet DEF Counted
<1>6. KeysTold /\ SeenTold
  BY DEF KeysTold, SeenTold, Of
<1>7. QED  BY <1>1, <1>3, <1>4, <1>5, <1>6 DEF AlertsInv

------------------------------------------------------------------------------
(* Every step is one of the settings, or leaves them alone.                 *)
LEMMA StepOfSettings == [Next]_vars => [SettingsNext]_settingVars
BY DEF Next, vars, SettingsNext, Reboot, File, Close, Skip, Scrape, CheckBegin,
       ReadReports, SendAlert, CheckMail

(* The settings keep their invariant.                                       *)
LEMMA SettingsStep == IInv /\ [Next]_vars => IInv'
BY StepOfSettings, NextIInv

(* Every action keeps the types.                                            *)
LEMMA TypesStep ==
    ASSUME IInv, TypeOK, SettingsTypeOK', [Next]_vars
    PROVE  TypeOK'
<1> USE DEF TypeOK, IInv, NoCheck
<1>1. CASE Settings /\ UNCHANGED <<open, jobState, ghostState>>
  BY <1>1 DEF jobState, ghostState
<1>2. ASSUME NEW g \in Slugs, NEW x \in Reports, File(g, x) PROVE TypeOK'
  BY <1>2 DEF File, jobState, ghostState
<1>3. ASSUME NEW g \in Slugs, NEW x \in Reports, Close(g, x) PROVE TypeOK'
  BY <1>3 DEF Close, jobState, All
<1>4. ASSUME NEW g \in Slugs, Skip(g) PROVE TypeOK'
  BY <1>4 DEF Skip, Left, ghostState
<1>5. ASSUME NEW g \in Slugs, Scrape(g) PROVE TypeOK'
  BY <1>5, CountType DEF Scrape, Remembers, Of, All
<1>6. CASE CheckBegin
  BY <1>6 DEF CheckBegin, ghostState, SettingsTypeOK
<1>7. CASE ReadReports
  <2> DEFINE g == check.slug
  <2>1. check.at = "reports" /\ g \in Slugs
    BY <1>7 DEF ReadReports, TypeOK
  <2>2. UNCHANGED <<settingVars, open, prev, seen, closed, named, ever>>
    BY <1>7 DEF ReadReports
  <2>3. CASE /\ check' = [check EXCEPT !.at = "alert", !.new = open[g] \ keys[g]]
             /\ keys' = [keys EXCEPT ![g] = open[g]]
             /\ told' = told \cup Of(g, seen[g] \ open[g])
    BY <2>1, <2>2, <2>3 DEF Of, All
  <2>4. CASE check' = [check EXCEPT !.at = "alert"] /\ UNCHANGED <<keys, told>>
    BY <2>1, <2>2, <2>4
  <2>5. QED  BY <1>7, <2>3, <2>4 DEF ReadReports, KeepsAll, FetchModReports
<1>8. CASE SendAlert
  BY <1>8 DEF SendAlert, Tells, Of, All
<1>9. CASE CheckMail
  BY <1>9 DEF CheckMail, Left, ghostState
<1>10. CASE Reboot
  BY <1>10, AlertsAssumption, FS_CardinalityType DEF Reboot
<1>11. CASE UNCHANGED vars
  BY <1>11 DEF vars, jobState, ghostState
<1>12. QED
  BY <1>1, <1>2, <1>3, <1>4, <1>5, <1>6, <1>7, <1>8, <1>9, <1>10, <1>11 DEF Next

(* A check goes on in order.                                                *)
LEMMA StageStep ==
    ASSUME TypeOK, Stage, [Next]_vars
    PROVE  Stage'
<1> USE DEF TypeOK, Stage, NoCheck
<1>1. CASE Settings /\ UNCHANGED <<open, jobState, ghostState>>
  BY <1>1 DEF jobState, ghostState
<1>2. ASSUME NEW g \in Slugs, NEW x \in Reports, File(g, x) PROVE Stage'
  BY <1>2 DEF File, jobState, ghostState
<1>3. ASSUME NEW g \in Slugs, NEW x \in Reports, Close(g, x) PROVE Stage'
  BY <1>3 DEF Close, jobState
<1>4. ASSUME NEW g \in Slugs, Skip(g) PROVE Stage'
  BY <1>4 DEF Skip, Left, ghostState
<1>5. ASSUME NEW g \in Slugs, Scrape(g) PROVE Stage'
  BY <1>5 DEF Scrape
<1>6. CASE CheckBegin
  BY <1>6 DEF CheckBegin, ghostState
<1>7. CASE ReadReports
  <2> DEFINE g == check.slug
  <2>1. check.at = "reports" /\ g \in Slugs
    BY <1>7 DEF ReadReports, TypeOK
  <2>2. UNCHANGED <<settingVars, open, prev, seen, closed, named, ever>>
    BY <1>7 DEF ReadReports
  <2>3. CASE /\ check' = [check EXCEPT !.at = "alert", !.new = open[g] \ keys[g]]
             /\ keys' = [keys EXCEPT ![g] = open[g]]
             /\ told' = told \cup Of(g, seen[g] \ open[g])
    BY <2>1, <2>2, <2>3
  <2>4. CASE check' = [check EXCEPT !.at = "alert"] /\ UNCHANGED <<keys, told>>
    BY <2>1, <2>2, <2>4
  <2>5. QED  BY <1>7, <2>3, <2>4 DEF ReadReports, KeepsAll, FetchModReports
<1>8. CASE SendAlert
  BY <1>8 DEF SendAlert
<1>9. CASE CheckMail
  BY <1>9 DEF CheckMail, Left, ghostState
<1>10. CASE Reboot
  BY <1>10 DEF Reboot
<1>11. CASE UNCHANGED vars
  BY <1>11 DEF vars, jobState, ghostState
<1>12. QED
  BY <1>1, <1>2, <1>3, <1>4, <1>5, <1>6, <1>7, <1>8, <1>9, <1>10, <1>11 DEF Next

(* The counter remembers what was seen.                                     *)
LEMMA CountedStep ==
    ASSUME TypeOK, Stage, Counted, [Next]_vars
    PROVE  Counted'
<1> USE DEF TypeOK, Counted
<1>1. CASE Settings /\ UNCHANGED <<open, jobState, ghostState>>
  BY <1>1 DEF jobState, ghostState
<1>2. ASSUME NEW g \in Slugs, NEW x \in Reports, File(g, x) PROVE Counted'
  BY <1>2 DEF File, jobState, ghostState
<1>3. ASSUME NEW g \in Slugs, NEW x \in Reports, Close(g, x) PROVE Counted'
  BY <1>3 DEF Close, jobState
<1>4. ASSUME NEW g \in Slugs, Skip(g) PROVE Counted'
  BY <1>4 DEF Skip, Left, ghostState
<1>5. ASSUME NEW g \in Slugs, Scrape(g) PROVE Counted'
  BY <1>5 DEF Scrape, Remembers, FetchModBubbles
<1>6. CASE CheckBegin
  BY <1>6 DEF CheckBegin, ghostState
<1>7. CASE ReadReports
  BY <1>7 DEF ReadReports
<1>8. CASE SendAlert
  BY <1>8 DEF SendAlert
<1>9. CASE CheckMail
  BY <1>9 DEF CheckMail, Left, ghostState
<1>10. CASE Reboot
  BY <1>10, FS_EmptySet DEF Reboot
<1>11. CASE UNCHANGED vars
  BY <1>11 DEF vars, jobState, ghostState
<1>12. QED
  BY <1>1, <1>2, <1>3, <1>4, <1>5, <1>6, <1>7, <1>8, <1>9, <1>10, <1>11 DEF Next

(* A key is remembered when its report is told of.                          *)
LEMMA KeysToldStep ==
    ASSUME TypeOK, Stage, KeysTold, [Next]_vars
    PROVE  KeysTold'
<1> USE DEF TypeOK, Stage, KeysTold, NoCheck, Of
<1>1. CASE Settings /\ UNCHANGED <<open, jobState, ghostState>>
  BY <1>1 DEF jobState, ghostState
<1>2. ASSUME NEW g \in Slugs, NEW x \in Reports, File(g, x) PROVE KeysTold'
  BY <1>2 DEF File, jobState, ghostState
<1>3. ASSUME NEW g \in Slugs, NEW x \in Reports, Close(g, x) PROVE KeysTold'
  BY <1>3 DEF Close, jobState
<1>4. ASSUME NEW g \in Slugs, Skip(g) PROVE KeysTold'
  BY <1>4, AlertsAssumption DEF Skip, Left, ghostState
<1>5. ASSUME NEW g \in Slugs, Scrape(g) PROVE KeysTold'
  BY <1>5, AlertsAssumption DEF Scrape
<1>6. CASE CheckBegin
  BY <1>6, AlertsAssumption DEF CheckBegin, ghostState
<1>7. CASE ReadReports
  <2> DEFINE g == check.slug
  <2>1. check.at = "reports" /\ g \in Slugs
    BY <1>7 DEF ReadReports, TypeOK
  <2>2. UNCHANGED <<settingVars, open, prev, seen, closed, named, ever>>
    BY <1>7 DEF ReadReports
  <2>3. CASE /\ check' = [check EXCEPT !.at = "alert", !.new = open[g] \ keys[g]]
             /\ keys' = [keys EXCEPT ![g] = open[g]]
             /\ told' = told \cup Of(g, seen[g] \ open[g])
    BY <2>1, <2>2, <2>3
  <2>4. CASE check' = [check EXCEPT !.at = "alert"] /\ UNCHANGED <<keys, told>>
    BY <2>1, <2>2, <2>4
  <2>5. QED  BY <1>7, <2>3, <2>4 DEF ReadReports, KeepsAll, FetchModReports
<1>8. CASE SendAlert
  BY <1>8 DEF SendAlert, Tells
<1>9. CASE CheckMail
  BY <1>9, AlertsAssumption DEF CheckMail, Left, ghostState
<1>10. CASE Reboot
  BY <1>10 DEF Reboot
<1>11. CASE UNCHANGED vars
  BY <1>11 DEF vars, jobState, ghostState
<1>12. QED
  BY <1>1, <1>2, <1>3, <1>4, <1>5, <1>6, <1>7, <1>8, <1>9, <1>10, <1>11 DEF Next

(* What is named is known.                                                  *)
LEMMA NamedStep ==
    ASSUME TypeOK, Stage, NamedKnown, [Next]_vars
    PROVE  NamedKnown'
<1> USE DEF TypeOK, Stage, NamedKnown, NoCheck, Of
<1>1. CASE Settings /\ UNCHANGED <<open, jobState, ghostState>>
  BY <1>1 DEF jobState, ghostState
<1>2. ASSUME NEW g \in Slugs, NEW x \in Reports, File(g, x) PROVE NamedKnown'
  BY <1>2 DEF File, jobState, ghostState
<1>3. ASSUME NEW g \in Slugs, NEW x \in Reports, Close(g, x) PROVE NamedKnown'
  BY <1>3 DEF Close, jobState
<1>4. ASSUME NEW g \in Slugs, Skip(g) PROVE NamedKnown'
  BY <1>4 DEF Skip, Left, ghostState
<1>5. ASSUME NEW g \in Slugs, Scrape(g) PROVE NamedKnown'
  BY <1>5 DEF Scrape
<1>6. CASE CheckBegin
  BY <1>6 DEF CheckBegin, ghostState
<1>7. CASE ReadReports
  <2> DEFINE g == check.slug
  <2>1. check.at = "reports" /\ g \in Slugs
    BY <1>7 DEF ReadReports, TypeOK
  <2>2. UNCHANGED <<settingVars, open, prev, seen, closed, named, ever>>
    BY <1>7 DEF ReadReports
  <2>3. CASE /\ check' = [check EXCEPT !.at = "alert", !.new = open[g] \ keys[g]]
             /\ keys' = [keys EXCEPT ![g] = open[g]]
             /\ told' = told \cup Of(g, seen[g] \ open[g])
    BY <2>1, <2>2, <2>3
  <2>4. CASE check' = [check EXCEPT !.at = "alert"] /\ UNCHANGED <<keys, told>>
    BY <2>1, <2>2, <2>4
  <2>5. QED  BY <1>7, <2>3, <2>4 DEF ReadReports, KeepsAll, FetchModReports
<1>8. CASE SendAlert
  BY <1>8 DEF SendAlert
<1>9. CASE CheckMail
  BY <1>9 DEF CheckMail, Left, ghostState
<1>10. CASE Reboot
  BY <1>10 DEF Reboot
<1>11. CASE UNCHANGED vars
  BY <1>11 DEF vars, jobState, ghostState
<1>12. QED
  BY <1>1, <1>2, <1>3, <1>4, <1>5, <1>6, <1>7, <1>8, <1>9, <1>10, <1>11 DEF Next

(* What a scrape counts is told of before the next one.                     *)
LEMMA SeenToldStep ==
    ASSUME TypeOK, Stage, Counted, KeysTold, SeenTold, [Next]_vars
    PROVE  SeenTold'
<1> USE DEF TypeOK, Stage, SeenTold, NoCheck, Of
<1>1. CASE Settings /\ UNCHANGED <<open, jobState, ghostState>>
  BY <1>1 DEF jobState, ghostState
<1>2. ASSUME NEW g \in Slugs, NEW x \in Reports, File(g, x) PROVE SeenTold'
  BY <1>2 DEF File, jobState, ghostState
<1>3. ASSUME NEW g \in Slugs, NEW x \in Reports, Close(g, x) PROVE SeenTold'
  BY <1>3 DEF Close, jobState
<1>4. ASSUME NEW g \in Slugs, Skip(g) PROVE SeenTold'
  BY <1>4, AlertsAssumption DEF Skip, Left, ghostState
<1>5. ASSUME NEW g \in Slugs, Scrape(g) PROVE SeenTold'
  <2>1. /\ check.at = "next" /\ check.slug = "none" /\ g # "none"
        /\ \A h \in Slugs : h # "none"
    BY <1>5, AlertsAssumption DEF Scrape
  <2>2. ASSUME NEW h \in Slugs, h # g PROVE Of(h, seen'[h]) \subseteq told'
    BY <1>5, <2>1, <2>2 DEF Scrape
  <2>3. ASSUME check'.at = "mail" PROVE Of(g, seen'[g]) \subseteq told'
    <3>1. Of(g, seen[g]) \subseteq told
      BY <2>1
    <3>2. seen'[g] = open[g] /\ Cardinality(open[g]) <= prev[g]
      <4>1. Cardinality(open[g]) \in Nat /\ prev[g] \in Nat
        BY CountType, AlertsAssumption, FS_CardinalityType DEF FetchModBubbles
      <4>2. QED  BY <1>5, <2>3, <4>1 DEF Scrape, FetchModBubbles
    <3>3. CASE g \in closed
      <4>1. told' = told \cup Of(g, open[g] \ seen[g])
        BY <1>5, <3>3 DEF Scrape
      <4>2. QED  BY <3>1, <3>2, <4>1
    <3>4. CASE g \notin closed
      <4>1. seen[g] \subseteq open[g] /\ Cardinality(open[g]) <= Cardinality(seen[g])
        BY <3>2, <3>4 DEF Counted
      <4>2. open[g] = seen[g]
        <5>1. /\ IsFiniteSet(open[g]) /\ seen[g] \in SUBSET open[g]
              /\ Cardinality(open[g]) \in Nat /\ Cardinality(seen[g]) \in Nat
          BY <4>1, CountType, FS_CardinalityType
        <5>2. /\ Cardinality(seen[g]) <= Cardinality(open[g])
              /\ Cardinality(open[g]) = Cardinality(seen[g]) => open[g] = seen[g]
          BY <5>1, FS_Subset
        <5>3. QED  BY <4>1, <5>1, <5>2
      <4>3. QED  BY <1>5, <3>1, <3>2, <3>4, <4>2 DEF Scrape
    <3>5. QED  BY <3>3, <3>4
  <2>4. check'.slug = g /\ check'.at \in {"mail", "reports"}
    BY <1>5 DEF Scrape
  <2>5. QED  BY <2>2, <2>3, <2>4
<1>6. CASE CheckBegin
  BY <1>6, AlertsAssumption DEF CheckBegin, ghostState
<1>7. CASE ReadReports
  <2> DEFINE g == check.slug
  <2>1. check.at = "reports" /\ g \in Slugs
    BY <1>7 DEF ReadReports, TypeOK
  <2>2. UNCHANGED <<settingVars, open, prev, seen, closed, named, ever>>
    BY <1>7 DEF ReadReports
  <2>3. CASE /\ check' = [check EXCEPT !.at = "alert", !.new = open[g] \ keys[g]]
             /\ keys' = [keys EXCEPT ![g] = open[g]]
             /\ told' = told \cup Of(g, seen[g] \ open[g])
    BY <2>1, <2>2, <2>3 DEF KeysTold
  <2>4. CASE check' = [check EXCEPT !.at = "alert"] /\ UNCHANGED <<keys, told>>
    BY <2>1, <2>2, <2>4
  <2>5. QED  BY <1>7, <2>3, <2>4 DEF ReadReports, KeepsAll, FetchModReports
<1>8. CASE SendAlert
  BY <1>8 DEF SendAlert, Tells
<1>9. CASE CheckMail
  BY <1>9, AlertsAssumption DEF CheckMail, Left, ghostState
<1>10. CASE Reboot
  BY <1>10 DEF Reboot
<1>11. CASE UNCHANGED vars
  BY <1>11 DEF vars, jobState, ghostState
<1>12. QED
  BY <1>1, <1>2, <1>3, <1>4, <1>5, <1>6, <1>7, <1>8, <1>9, <1>10, <1>11 DEF Next

------------------------------------------------------------------------------
(* Every step keeps the inductive invariant.                                *)
LEMMA AlertsStep == AlertsInv /\ [Next]_vars => AlertsInv'
<1> SUFFICES ASSUME AlertsInv, [Next]_vars PROVE AlertsInv'
  OBVIOUS
<1>1. IInv' /\ SettingsTypeOK'
  BY SettingsStep DEF AlertsInv, IInv
<1>2. TypeOK'
  BY <1>1, TypesStep DEF AlertsInv
<1>3. Stage' /\ Counted'
  BY StageStep, CountedStep DEF AlertsInv
<1>4. KeysTold' /\ SeenTold' /\ NamedKnown'
  BY KeysToldStep, SeenToldStep, NamedStep DEF AlertsInv
<1>5. QED  BY <1>1, <1>2, <1>3, <1>4 DEF AlertsInv

LEMMA AlertsInductive == Spec => []AlertsInv
<1>1. QED  BY AlertsInit, AlertsStep, PTL DEF Spec

(* Every variable keeps its type.                                           *)
THEOREM AlertTypes == Spec => []TypeOK
<1>1. AlertsInv => TypeOK
  BY DEF AlertsInv
<1>2. QED  BY <1>1, AlertsInductive, PTL

(* Every report that a scrape counted is told of before the next check      *)
(* (bubbles.go:576-682).                                                    *)
THEOREM AllTold == Spec => []NothingMissed
<1>1. AlertsInv => NothingMissed
  BY DEF AlertsInv, SeenTold, NothingMissed
<1>2. QED  BY <1>1, AlertsInductive, PTL

(* A process does not name an open report twice (bubbles.go:630-682).       *)
THEOREM NamedOnce == Spec => NoRepeat
<1>1. AlertsInv => [SendAlert => Of(check.slug, check.new) \cap named = {}]_vars
  BY DEF AlertsInv, NamedKnown, SendAlert
<1>2. QED  BY <1>1, AlertsInductive, PTL DEF NoRepeat

(* The alerts leave the settings what they are.                             *)
THEOREM SettingsUnharmed == Spec => [](WriteThrough /\ FileKeepsUp)
<1>1. AlertsInv => WriteThrough /\ FileKeepsUp
  BY DEF AlertsInv, IInv
<1>2. QED  BY <1>1, AlertsInductive, PTL

==============================================================================
