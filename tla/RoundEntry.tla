------------------------------ MODULE RoundEntry ------------------------------
(***************************************************************************)
(* One hole of RoundEntryPage.tsx, and the cached query ["rounds", id] it  *)
(* reads: the query is fetched whenever the page opens or the window takes *)
(* the focus, the hole's card takes the values of the cached round once,   *)
(* when it is mounted, and the card and the CSV import save the hole and   *)
(* then invalidate the query.  Saves and fetches travel independently.     *)
(*                                                                         *)
(* The cache, the fetches and the forms are those of TanStack Query and    *)
(* react-hook-form, as the page uses them: a fetch under way is shared,    *)
(* except that an invalidation replaces it once the query has data; a      *)
(* query nobody reads goes on fetching and is kept for a while.            *)
(***************************************************************************)
EXTENDS Naturals

CONSTANTS
  Scores,      \* scores a hole can be given
  Blank,       \* no score: of a hole not recorded, of an empty field
  NoData,      \* the cache holds nothing
  Slots,       \* saves under way at once (a bound)
  MaxSaves     \* bound on the saves that are sent

ASSUME BlankAssumption == Blank \notin Scores
ASSUME NoDataAssumption == NoData \notin [score : Scores \cup {Blank}, open : BOOLEAN]

VARIABLES
  stored,   \* the round on the server: the score of the hole, and whether it is amendable
  cached,   \* the data of the query, or NoData
  failed,   \* whether the query's last fetch failed
  fetch,    \* the query's fetch: "idle", "sent" or "served", and the round the server read
  view,     \* "away", or the way scores are entered: "manual" or "csv"
  card,     \* the hole's card: its field and the save it waits for
  form,     \* the save the CSV form on the screen waits for
  saves,    \* the saves under way
  sent,     \* saves sent so far
  doubt     \* history: no fetch was begun since one was joined or an answer lost

entryVars == <<stored, cached, failed, fetch, view, card, form, saves, sent, doubt>>

NoSlot == 0
NoCard == [there |-> FALSE, field |-> Blank, slot |-> NoSlot]
NoFetch == [state |-> "idle", round |-> NoData]
Sent    == [state |-> "sent", round |-> NoData]
NoSave == [by |-> "none", score |-> Blank, state |-> "none"]

EntryInit ==
  /\ stored \in [score : Scores \cup {Blank}, open : {TRUE}]
  /\ cached = NoData /\ failed = FALSE /\ fetch = NoFetch
  /\ view = "away" /\ card = NoCard /\ form = NoSlot
  /\ saves = [s \in Slots |-> NoSave] /\ sent = 0
  /\ doubt = FALSE

(* What a card takes from the round when it is mounted.                    *)
Mounted(round) ==
  [there |-> TRUE, field |-> round.score, slot |-> NoSlot]

(* The card on the screen once the query holds d, has failed or not, and   *)
(* the page shows v: an error or an approved round replaces the form.      *)
CardAfter(v, d, bad) ==
  CASE v # "manual" \/ bad \/ d = NoData -> NoCard
    [] OTHER -> IF ~ d.open THEN NoCard ELSE IF card.there THEN card ELSE Mounted(d)

FormAfter(v, d, bad) == IF v = "csv" /\ ~ bad /\ d # NoData /\ d.open THEN form ELSE NoSlot

(* The page opens: a fetch under way is joined, otherwise one begins.      *)
OpenPage ==
  /\ view = "away"
  /\ view' = "manual"
  /\ fetch' = IF fetch = NoFetch THEN Sent ELSE fetch
  /\ doubt' = (fetch # NoFetch)
  /\ card' = CardAfter("manual", cached, failed)
  /\ UNCHANGED <<stored, cached, failed, form, saves, sent>>

(* Leaving unmounts everything; saves and the fetch go on.                 *)
LeavePage ==
  /\ view # "away"
  /\ view' = "away" /\ card' = NoCard /\ form' = NoSlot
  /\ UNCHANGED <<stored, cached, failed, fetch, saves, sent, doubt>>

FocusWindow ==
  /\ view # "away" /\ fetch = NoFetch
  /\ fetch' = Sent /\ doubt' = FALSE
  /\ UNCHANGED <<stored, cached, failed, view, card, form, saves, sent>>

(* A query nobody reads is dropped after a while: long after any answer.   *)
DropQuery ==
  /\ view = "away" /\ cached # NoData /\ fetch = NoFetch
  /\ \A s \in Slots : saves[s] = NoSave
  /\ cached' = NoData /\ failed' = FALSE
  /\ UNCHANGED <<stored, fetch, view, card, form, saves, sent, doubt>>

ServeFetch ==
  /\ fetch.state = "sent"
  /\ fetch' = [state |-> "served", round |-> stored]
  /\ UNCHANGED <<stored, cached, failed, view, card, form, saves, sent, doubt>>

FetchAnswers ==
  /\ fetch.state = "served"
  /\ cached' = fetch.round /\ failed' = FALSE /\ fetch' = NoFetch
  /\ card' = CardAfter(view, cached', FALSE)
  /\ form' = FormAfter(view, cached', FALSE)
  /\ UNCHANGED <<stored, view, saves, sent, doubt>>

(* After its retries a fetch fails, and the page shows the error instead   *)
(* of the form although the data is still cached.                          *)
FetchFails ==
  /\ fetch # NoFetch
  /\ failed' = TRUE /\ fetch' = NoFetch
  /\ card' = CardAfter(view, cached, TRUE)
  /\ form' = FormAfter(view, cached, TRUE)
  /\ UNCHANGED <<stored, cached, view, saves, sent, doubt>>

FormShown == ~ failed /\ cached # NoData /\ cached.open

(* The toggle between the cards and the CSV form mounts one afresh.        *)
SwitchMode ==
  /\ view # "away" /\ FormShown
  /\ view' = IF view = "manual" THEN "csv" ELSE "manual"
  /\ card' = CardAfter(view', cached, failed)
  /\ form' = NoSlot
  /\ UNCHANGED <<stored, cached, failed, fetch, saves, sent, doubt>>

Type(v) ==
  /\ card.there /\ card.field # v
  /\ card' = [card EXCEPT !.field = v]
  /\ UNCHANGED <<stored, cached, failed, fetch, view, form, saves, sent, doubt>>

Send(s, by, v) ==
  /\ saves[s] = NoSave /\ sent < MaxSaves
  /\ saves' = [saves EXCEPT ![s] = [by |-> by, score |-> v, state |-> "sent"]]
  /\ sent' = sent + 1

(* "Save hole" waits for the card's own save only, and needs a score.      *)
SaveHole(s) ==
  /\ card.there /\ card.slot = NoSlot /\ card.field # Blank
  /\ Send(s, "card", card.field)
  /\ card' = [card EXCEPT !.slot = s]
  /\ UNCHANGED <<stored, cached, failed, fetch, view, form, doubt>>

Import(s, v) ==
  /\ view = "csv" /\ FormShown /\ form = NoSlot
  /\ Send(s, "csv", v)
  /\ form' = s
  /\ UNCHANGED <<stored, cached, failed, fetch, view, card, doubt>>

(* POST /rounds/:id/holes.                                                 *)
ServeSave(s) ==
  /\ saves[s].state = "sent"
  /\ \/ /\ stored.open
        /\ stored' = [stored EXCEPT !.score = saves[s].score]
        /\ saves' = [saves EXCEPT ![s].state = "saved"]
     \/ ~ stored.open /\ saves' = [saves EXCEPT ![s].state = "refused"] /\ UNCHANGED stored
  /\ UNCHANGED <<cached, failed, fetch, view, card, form, sent, doubt>>

(* invalidateQueries: the query of a page on the screen is fetched again,  *)
(* in the place of a fetch under way if there is data already.             *)
Invalidate ==
  IF view = "away" THEN UNCHANGED <<fetch, doubt>>
  ELSE /\ fetch' = IF fetch = NoFetch \/ cached # NoData THEN Sent ELSE fetch
       /\ doubt' = FALSE

(* The answer of a card's save: the card that sent it takes the values     *)
(* that were saved, whatever has been typed since.                         *)
CardAnswered(s) ==
  /\ saves[s].by = "card" /\ saves[s].state = "saved"
  /\ Invalidate
  /\ saves' = [saves EXCEPT ![s] = NoSave]
  /\ card' = IF card.slot = s
             THEN [card EXCEPT !.field = saves[s].score, !.slot = NoSlot]
             ELSE card
  /\ UNCHANGED <<stored, cached, failed, view, form, sent>>

(* The save was refused, or its answer or the request itself was lost.     *)
CardFails(s) ==
  /\ saves[s].by = "card"
  /\ saves' = [saves EXCEPT ![s] = NoSave]
  /\ card' = IF card.slot = s THEN [card EXCEPT !.slot = NoSlot] ELSE card
  /\ doubt' = (doubt \/ saves[s].state = "saved")
  /\ UNCHANGED <<stored, cached, failed, fetch, view, form, sent>>

\* Mutant: an import that ends after its form is gone tells nobody.
ImportEndsUnseen(s) ==
  /\ saves[s].by = "csv"
  /\ IF form = s THEN Invalidate ELSE UNCHANGED <<fetch, doubt>>
  /\ saves' = [saves EXCEPT ![s] = NoSave]
  /\ form' = IF form = s THEN NoSlot ELSE form
  /\ UNCHANGED <<stored, cached, failed, view, card, sent>>

(* The import invalidates the query whatever became of its rows.           *)
ImportEnds(s) ==
  /\ saves[s].by = "csv"
  /\ Invalidate
  /\ saves' = [saves EXCEPT ![s] = NoSave]
  /\ form' = IF form = s THEN NoSlot ELSE form
  /\ UNCHANGED <<stored, cached, failed, view, card, sent>>

(* Meanwhile an administrator approves the round.                          *)
Approve ==
  /\ stored.open
  /\ stored' = [stored EXCEPT !.open = FALSE]
  /\ UNCHANGED <<cached, failed, fetch, view, card, form, saves, sent, doubt>>

EntryNext ==
  \/ OpenPage \/ LeavePage \/ FocusWindow \/ DropQuery
  \/ ServeFetch \/ FetchAnswers \/ FetchFails
  \/ SwitchMode \/ Approve
  \/ \E v \in Scores \cup {Blank} : Type(v)
  \/ \E s \in Slots : SaveHole(s) \/ ServeSave(s) \/ CardAnswered(s) \/ CardFails(s) \/ ImportEnds(s)
  \/ \E s \in Slots, v \in Scores : Import(s, v)

EntrySpec == EntryInit /\ [][EntryNext]_entryVars

-----------------------------------------------------------------------------
AtRest == fetch = NoFetch /\ \A s \in Slots : saves[s] = NoSave

(* Once every answer has come, the page shows the hole as the server has   *)
(* it: whatever the order in which saves, imports and fetches were served  *)
(* and answered, none of the page's own writes is hidden by a fetch that   *)
(* read the round before it.  A page that joined a fetch begun before it   *)
(* opened, and one whose save was stored but not answered, must be fetched *)
(* once more first.                                                        *)
OwnSavesAreShown ==
  AtRest /\ view # "away" /\ ~ failed /\ ~ doubt => cached.score = stored.score

-----------------------------------------------------------------------------
(* The inductive invariant                                                  *)

Round == [score : Scores \cup {Blank}, open : BOOLEAN]

Save ==
  [by : {"card", "csv"}, score : Scores, state : {"sent", "saved", "refused"}]

EntryTypeOK ==
  /\ stored \in Round /\ cached \in Round \cup {NoData} /\ failed \in BOOLEAN
  /\ fetch \in {NoFetch, Sent} \cup [state : {"served"}, round : Round]
  /\ view \in {"away", "manual", "csv"}
  /\ card \in [there : BOOLEAN, field : Scores \cup {Blank}, slot : Slots \cup {NoSlot}]
  /\ form \in Slots \cup {NoSlot}
  /\ saves \in [Slots -> Save \cup {NoSave}] /\ sent \in Nat
  /\ doubt \in BOOLEAN

(* Saves come from a form, which is shown with data, and data stays while   *)
(* a save is under way: an invalidation always begins a fetch of its own.   *)
DataIsThere ==
  /\ card.there => view # "away" /\ cached # NoData
  /\ \A s \in Slots : saves[s] # NoSave => cached # NoData

(* Whoever reads the round as the server has it, or will: a fetch that is   *)
(* still to be served, one that was served the score the server has, a save *)
(* whose answer will have it fetched, or the cache itself.                  *)
WillBeShown ==
  \/ fetch = Sent
  \/ \E s \in Slots : saves[s].state = "saved"
  \/ fetch.state = "served" /\ fetch.round.score = stored.score
  \/ fetch = NoFetch /\ (failed \/ (cached # NoData /\ cached.score = stored.score))

EntryInv ==
  /\ EntryTypeOK /\ DataIsThere
  /\ view # "away" /\ ~ doubt => WillBeShown

=============================================================================
