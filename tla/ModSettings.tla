------------------------------ MODULE ModSettings ------------------------------
(***************************************************************************)
(* What a moderator chose, in memory and on disk: the subforums to watch,  *)
(* a map and a table written one after the other (mod_forums.go), and the  *)
(* Telegram chats to alert, a map that goroutines write to a file          *)
(* (telegram.go:80-124), registered from Telegram's updates                *)
(* (telegram.go:127-306).  One moderator; a restart reads both back.       *)
(***************************************************************************)
EXTENDS Naturals, FiniteSets

CONSTANTS
    Slugs,              \* subforums of the moderator
    Requests,           \* goroutines of POST and DELETE /mod/forums
    Chats,              \* Telegram chats that mention the bot
    Savers,             \* goroutines of saveChats
    MaxChanges          \* bound: requests and restarts

ASSUME SettingsAssumption == IsFiniteSet(Chats) /\ MaxChanges \in Nat

VARIABLES
    forums, table,      \* s.forums of the user, its rows in mod_forums
    req,                \* request -> [at, op, slug]
    chats, file,        \* tb.chats of the user; the file, Torn or whole
    saver,              \* goroutine -> [at, snap]
    bot,                \* getMe was answered at the start: the bot runs
    inbox,              \* updates that Telegram has not seen confirmed
    batch, handled      \* those received: still to handle, and handled

\* What properties compare with, and the bound's counter.
VARIABLES
    unsure,             \* slugs two requests changed at once, or a write failed for
    clash,              \* two goroutines saved the chats at once, or a save failed
    asked, lost,        \* chats that mentioned the bot; chats that a restart forgot
    changes

forumVars == <<forums, table, req, unsure>>
chatVars  == <<chats, file, saver, bot, inbox, batch, handled, clash, asked, lost>>
settingVars == <<forumVars, chatVars, changes>>

Torn     == [whole |-> FALSE, ids |-> {}]
Whole(S) == [whole |-> TRUE, ids |-> S]
Free == [at |-> "idle", op |-> "add", slug |-> "none"]
NoSave == [at |-> "idle", snap |-> {}]

SettingsInit ==
    /\ forums = {} /\ table = {} /\ req = [r \in Requests |-> Free]
    /\ chats = {} /\ file = Whole({}) /\ saver = [g \in Savers |-> NoSave]
    /\ bot \in BOOLEAN
    /\ inbox = {} /\ batch = {} /\ handled = {} /\ asked = {}
    /\ unsure = {} /\ clash = FALSE /\ lost = {} /\ changes = 0

------------------------------------------------------------------------------
(* POST and DELETE /mod/forums.  A POST first asks the forum whether the   *)
(* user moderates the subforum.                                            *)
Submit(r, op, g) ==
    /\ changes < MaxChanges /\ changes' = changes + 1
    /\ req[r].at = "idle"
    /\ req' = [req EXCEPT ![r] = [at |-> "change", op |-> op, slug |-> g]]
    /\ unsure' = IF \E q \in Requests : req[q].at # "idle" /\ req[q].slug = g
                 THEN unsure \cup {g} ELSE unsure
    /\ UNCHANGED <<forums, table, chatVars>>

Done(r) == req' = [req EXCEPT ![r] = Free]

NotModerator(r) ==
    /\ req[r].at = "change" /\ req[r].op = "add" /\ Done(r)
    /\ UNCHANGED <<forums, table, unsure, chatVars, changes>>

With(S, r) == IF req[r].op = "add" THEN S \cup {req[r].slug} ELSE S \ {req[r].slug}

(* The map, under s.mu; the table only if the map changed.                 *)
ChangeForums(r) ==
    /\ req[r].at = "change"
    /\ forums' = With(forums, r)
    /\ IF forums' # forums THEN req' = [req EXCEPT ![r].at = "write"] ELSE Done(r)
    /\ UNCHANGED <<table, unsure, chatVars, changes>>

(* Mutant: a removal is not written.                                       *)
WriteAdded(r) == IF req[r].op = "add" THEN table \cup {req[r].slug} ELSE table

Written(r) == With(table, r)

(* A write that fails is logged.                                           *)
WriteForums(r) ==
    /\ req[r].at = "write" /\ Done(r)
    /\ \/ table' = Written(r) /\ UNCHANGED unsure
       \/ UNCHANGED table /\ unsure' = unsure \cup {req[r].slug}
    /\ UNCHANGED <<forums, chatVars, changes>>

------------------------------------------------------------------------------
(* An admin mentions the bot.                                              *)
Mention(c) ==
    /\ c \notin inbox \cup chats
    /\ inbox' = inbox \cup {c} /\ asked' = asked \cup {c}
    /\ UNCHANGED <<forumVars, chats, file, saver, bot, batch, handled, clash, lost, changes>>

(* Mutant: an update is confirmed as soon as it is received.               *)
ConfirmsReceived == inbox

(* The offset after the updates of the last batch.                         *)
Confirms == handled

(* getUpdates, once the last batch is handled: Telegram forgets what the   *)
(* offset confirms and sends the rest.                                     *)
GetUpdates ==
    /\ bot /\ batch = {} /\ inbox # {}
    /\ inbox' = inbox \ Confirms /\ batch' = inbox \ handled /\ handled' = {}
    /\ UNCHANGED <<forumVars, chats, file, saver, bot, clash, asked, lost, changes>>

Saving == {g \in Savers : saver[g].at # "idle"}

Registers(c, g, snap) ==
    /\ c \in batch /\ batch' = batch \ {c} /\ handled' = handled \cup {c}
    /\ saver[g].at = "idle" /\ saver' = [saver EXCEPT ![g] = snap]
    /\ chats' = chats \cup {c}
    /\ clash' = (clash \/ Saving # {})
    /\ UNCHANGED <<forumVars, file, bot, inbox, asked, lost, changes>>

(* Mutant: the chats are copied before the new one is among them.          *)
HandleOld(c, g) == Registers(c, g, [at |-> "open", snap |-> chats])

(* handleMessage: the chat is registered and a goroutine saves them all.   *)
HandleMessage(c, g) == Registers(c, g, [at |-> "snap", snap |-> {}])

SaveTo(g, a) == saver' = [saver EXCEPT ![g].at = a]
SaveEnds(g)  == saver' = [saver EXCEPT ![g] = NoSave]
updates      == <<bot, inbox, batch, handled, asked, lost, changes>>

Snapshot(g) ==
    /\ saver[g].at = "snap"
    /\ saver' = [saver EXCEPT ![g] = [at |-> "open", snap |-> chats]]
    /\ UNCHANGED <<forumVars, chats, file, updates, clash>>

(* os.WriteFile truncates the file, ...                                    *)
OpenFile(g) ==
    /\ saver[g].at = "open"
    /\ \/ SaveTo(g, "write") /\ file' = Torn /\ UNCHANGED clash
       \/ SaveEnds(g) /\ clash' = TRUE /\ UNCHANGED file
    /\ UNCHANGED <<forumVars, chats, updates>>

(* ... and writes: over the start of a longer list of another goroutine.   *)
Overlay(old, new) ==
    IF Cardinality(old.ids) <= Cardinality(new) THEN Whole(new) ELSE Torn

WriteFile(g) ==
    /\ saver[g].at = "write" /\ SaveEnds(g)
    /\ \/ file' = Overlay(file, saver[g].snap) /\ UNCHANGED clash
       \/ clash' = TRUE /\ UNCHANGED file
    /\ UNCHANGED <<forumVars, chats, updates>>

(* The process dies and the next one loads both: a table that cannot be    *)
(* read is empty until then, a torn file is none.                          *)
Restart ==
    /\ changes < MaxChanges /\ changes' = changes + 1
    /\ \/ forums' = table /\ unsure' = {}
       \/ forums' = {} /\ unsure' = Slugs
    /\ req' = [r \in Requests |-> Free]
    /\ chats' = file.ids /\ lost' = (lost \cup chats) \ chats'
    /\ saver' = [g \in Savers |-> NoSave] /\ clash' = FALSE
    /\ bot' \in BOOLEAN /\ batch' = {} /\ handled' = {}
    /\ UNCHANGED <<table, file, inbox, asked>>

Settings ==
    \/ \E r \in Requests :
          \/ \E op \in {"add", "remove"}, g \in Slugs : Submit(r, op, g)
          \/ NotModerator(r) \/ ChangeForums(r) \/ WriteForums(r)
    \/ (\E c \in Chats : Mention(c)) \/ GetUpdates
    \/ \E g \in Savers :
          (\E c \in Chats : HandleMessage(c, g)) \/ Snapshot(g) \/ OpenFile(g) \/ WriteFile(g)

SettingsNext == Settings \/ Restart

(* Requests are answered; the bot keeps asking, whose calls all time out.  *)
Fairness ==
    /\ WF_settingVars(GetUpdates)
    /\ WF_settingVars(\E c \in Chats, g \in Savers : HandleMessage(c, g))
    /\ \A g \in Savers : WF_settingVars(Snapshot(g) \/ OpenFile(g) \/ WriteFile(g))

SettingsSpec == SettingsInit /\ [][SettingsNext]_settingVars /\ Fairness

------------------------------------------------------------------------------
SettingsTypeOK ==
    /\ forums \subseteq Slugs /\ table \subseteq Slugs
    /\ req \in [Requests -> [at : {"idle", "change", "write"}, op : {"add", "remove"},
                             slug : Slugs \cup {"none"}]]
    /\ chats \subseteq Chats /\ file \in {Torn} \cup {Whole(S) : S \in SUBSET Chats}
    /\ saver \in [Savers -> [at : {"idle", "snap", "open", "write"}, snap : SUBSET Chats]]
    /\ bot \in BOOLEAN /\ inbox \subseteq Chats /\ batch \subseteq inbox /\ handled \subseteq inbox
    /\ unsure \subseteq Slugs /\ clash \in BOOLEAN /\ lost \cup asked \subseteq Chats
    /\ changes \in 0..MaxChanges

(***************************************************************************)
(* The map is "a write-through cache" of the table (mod_forums.go:12-13):  *)
(* but for a subforum of which two requests overlapped or a write failed   *)
(* in this process, or which it could not read, they agree when nobody is  *)
(* about to write it.                                                      *)
(***************************************************************************)
WriteThrough ==
    \A g \in Slugs \ unsure :
        (g \in forums) = (g \in table) \/ \E r \in Requests : req[r].at = "write" /\ req[r].slug = g

(***************************************************************************)
(* The file keeps up with the chats (telegram.go:286-296): when nobody     *)
(* saves them and no two saves overlapped, a restart loses no chat.        *)
(***************************************************************************)
FileKeepsUp == Saving = {} /\ ~clash => file.ids = chats

(***************************************************************************)
(* A mention is not missed (telegram.go:209-254): the chat of an admin who *)
(* mentioned the bot is registered or still to be read from Telegram,      *)
(* unless a restart came between its registration and the end of a save.   *)
(***************************************************************************)
MentionsKept == asked \subseteq inbox \cup chats \cup lost

(***************************************************************************)
(* And in the end it is registered, however often the process restarts     *)
(* before Telegram has seen the update confirmed, once a bot runs.         *)
(***************************************************************************)
MentionsEnd == \A c \in Chats : c \in inbox ~> c \in chats \/ ~bot

==============================================================================
