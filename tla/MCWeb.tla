-------------------------------- MODULE MCWeb --------------------------------
(***************************************************************************)
(* The web client beside the catalogue it edits: a behaviour is one of the *)
(* catalogue on the server, of the score entry page, or of the pages and   *)
(* their routes.  The three share no state; while one runs the others keep *)
(* an initial state.                                                       *)
(***************************************************************************)
EXTENDS Courses, RoundEntry, Pages

(* One initial state of each stands for all beside the others.             *)
EntryAtStart ==
  /\ view = "away" /\ sent = 0 /\ cached = NoData /\ fetch = NoFetch
  /\ stored.score = Blank /\ stored.open /\ ~ failed /\ ~ doubt
PagesAtStart ==
  /\ watched = AccountQuery /\ user = "none" /\ screen = "login" /\ ~ mounted
  /\ asking = "idle" /\ data = "none" /\ writes = {} /\ ~ changed /\ ~ unsure /\ ~ denied
CoursesAtStart == started = 0 /\ \A n \in Rounds : plays[n] = None

MCInit == Init /\ EntryInit /\ PagesInit

MCNext ==
  \/ EntryAtStart /\ PagesAtStart /\ Next /\ UNCHANGED <<entryVars, pageVars>>
  \/ CoursesAtStart /\ PagesAtStart /\ EntryNext /\ UNCHANGED <<vars, pageVars>>
  \/ CoursesAtStart /\ EntryAtStart /\ PagesNext /\ UNCHANGED <<vars, entryVars>>

MCSpec == MCInit /\ [][MCNext]_<<vars, entryVars, pageVars>>
==============================================================================
