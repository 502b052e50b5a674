------------------------------ MODULE PollSlots ------------------------------
(***************************************************************************)
(* What the poll queue of bubbles.go promises to the rest of the server:   *)
(* a client has ONE poll slot.  A tick claims a free slot; a claimed slot  *)
(* is scraped, or given back without a scrape (queue full, shutdown); a    *)
(* scrape gives its slot back when it ends.  So no client is ever scraped  *)
(* by two goroutines at once, and everything keyed by client that checkOne *)
(* touches has a single writer.                                            *)
(***************************************************************************)
CONSTANT Clients        \* client IDs (API tokens, app-login tokens)

VARIABLE slot           \* client -> state of its poll slot

SlotStates == {"free", "claimed", "scraping"}

Init == slot = [c \in Clients |-> "free"]

Move(c, from, to) ==
    /\ slot[c] = from
    /\ slot' = [slot EXCEPT ![c] = to]

Claim(c)   == Move(c, "free", "claimed")
GiveBack(c) == Move(c, "claimed", "free")
Scrape(c)  == Move(c, "claimed", "scraping")
Finish(c)  == Move(c, "scraping", "free")

Next == \E c \in Clients : Claim(c) \/ GiveBack(c) \/ Scrape(c) \/ Finish(c)

Spec == Init /\ [][Next]_slot

==============================================================================
