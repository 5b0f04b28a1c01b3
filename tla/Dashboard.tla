----------------------------- MODULE Dashboard -----------------------------
(***************************************************************************)
(* ui.Dashboard in live mode: the event loop that handles the keys, the    *)
(* goroutine that repaints four times a second, and one goroutine for each *)
(* question to the AI.  Only the event loop draws; the others queue what   *)
(* is to be drawn, and the repaint goroutine waits until it is.            *)
(*                                                                         *)
(* A snapshot is here the ranking of the hosts in its TopTalkers.  The     *)
(* pause of the packet log, the export key and the widgets' own keys but   *)
(* the selection of a row are left out, and so are the replay keys, which  *)
(* are in module Replay.                                                   *)
(***************************************************************************)
EXTENDS Naturals, Sequences, FiniteSets

CONSTANTS
    NoHost,
    Rankings,    \* the TopTalkers a snapshot may have
    Filters,     \* expressions the handle accepts
    BadFilter,   \* one it refuses
    Blank,       \* the empty one
    Spaces,      \* one of white space only
    MaxAsks, MaxPublished  \* bounds: questions to the AI, snapshots

\* Hosts are never taken out of the talkers: once there is one, no ranking is empty.
ASSUME DashboardAssumption ==
    /\ {Blank, Spaces, BadFilter} \intersect Filters = {}
    /\ Cardinality({Blank, Spaces, BadFilter}) = 3
    /\ \A ranking \in Rankings : Len(ranking) \in Nat \ {0} /\ DOMAIN ranking = 1..Len(ranking)

Panels == {"storyModal", "topoModal", "procModal", "aiModal"}

VARIABLES
    ctxDone,
    snap,        \* TopTalkers of the snapshot behind publishedPtr
    published,   \* history: snapshots published
    app,         \* the event loop: "starting" until it has a screen, "running", "stopped"
    open,        \* the modal pages on show, above "main"
    bpf,         \* bpfFilterExpr, which the top bar and the exported report show
    installed,   \* the filter of the pcap handle
    table, row,  \* the top talkers on show and the row selected, 0 for none
    story,       \* the host whose narrative the story panel shows
    repaint,     \* "wait", "select", "queued" or "done"
    frame,       \* what the repaint goroutine has read
    asks,        \* history: questions to the AI so far
    pending,     \* questions without an answer: id, host, story
    aiView       \* "nothing", "connecting" or the id of an answer

uiVars == <<open, bpf, installed, table, row, story>>
aiVars == <<asks, pending, aiView>>
repaintVars == <<repaint, frame>>
vars == <<ctxDone, snap, published, app, uiVars, repaintVars, aiVars>>

\* ApplyBPFFilter trims its expression; one that is then empty installs nothing
\* and is no error, and one the handle refuses changes nothing.
ApplyBPFFilter(expr, before) == IF expr \in Filters THEN expr ELSE before

Refused(expr) == expr = BadFilter

Init ==
    /\ ctxDone = FALSE /\ snap = <<>> /\ published = 0
    /\ app = "starting" /\ open = {}
    /\ bpf \in Filters \union {Blank, Spaces}    \* main's -filter, which it has applied
    /\ installed = ApplyBPFFilter(bpf, Blank)
    /\ table = <<>> /\ row = 0 /\ story = NoHost
    /\ repaint = "wait" /\ frame = [snap |-> <<>>, selected |-> NoHost]
    /\ asks = 0 /\ pending = {} /\ aiView = "nothing"

SelectedIP == IF row \in DOMAIN table THEN table[row] ELSE NoHost

\* StoryPanel.Update: without a selection the panel shows a hint instead.
UpdateStory(selected) == story' = selected

\* TopTalkersPanel.Update keeps the row that is selected, not the host.
UpdateTable(ranking) ==
    /\ table' = ranking
    /\ row' = IF row \in DOMAIN ranking \/ ranking = <<>> THEN row ELSE 1
-----------------------------------------------------------------------------
(* The rest of the program *)

Cancel == ~ctxDone /\ ctxDone' = TRUE /\ UNCHANGED <<snap, published>>

Publish ==
    /\ published < MaxPublished
    /\ snap' \in Rankings
    /\ published' = published + 1
    /\ UNCHANGED ctxDone
-----------------------------------------------------------------------------
(* The keys *)

\* Mutant of OnMain: the page in front is not asked for.
OnAnyPage == app = "running"

OnMain == app = "running" /\ open = {}

OpenFilter ==
    /\ OnMain
    /\ open' = open \union {"filterModal"}
    /\ UNCHANGED <<bpf, installed, table, row, story>>

Typed == Filters \union {BadFilter, Blank, Spaces}

\* Mutant of EnterFilter: the modal takes the expression that was refused.
EnterFilterAlways ==
    /\ app = "running" /\ open = {"filterModal"}
    /\ \E expr \in Typed :
         /\ installed' = ApplyBPFFilter(expr, installed)
         /\ open' = {} /\ bpf' = expr
    /\ UNCHANGED <<table, row, story>>

\* A refused expression stays in the modal, with the error.
EnterFilter ==
    /\ app = "running" /\ open = {"filterModal"}
    /\ \E expr \in Typed :
         /\ installed' = ApplyBPFFilter(expr, installed)
         /\ IF Refused(expr) THEN UNCHANGED <<open, bpf>> ELSE open' = {} /\ bpf' = expr
    /\ UNCHANGED <<table, row, story>>

\* Escape, and in the panels g, P, A and a too.
CloseModal ==
    /\ app = "running" /\ open # {}
    /\ \E modal \in open : open' = open \ {modal}
    /\ UNCHANGED <<bpf, installed, table, row, story>>

\* 'g' and 'P': the panel is filled from the snapshot, or from the tracker.
OpenPanel ==
    /\ OnMain
    /\ \E panel \in {"topoModal", "procModal"} : open' = open \union {panel}
    /\ UNCHANGED <<bpf, installed, table, row, story>>

OpenStory ==
    /\ OnMain
    /\ open' = open \union {"storyModal"}
    /\ UpdateStory(SelectedIP)
    /\ UNCHANGED <<bpf, installed, table, row>>

SelectRow ==
    /\ OnMain
    /\ row' \in DOMAIN table
    /\ UNCHANGED <<open, bpf, installed, table, story>>

UiKey ==
    /\ \/ OpenFilter \/ EnterFilter \/ CloseModal
       \/ OpenPanel \/ OpenStory \/ SelectRow
    /\ UNCHANGED <<app, aiVars>>

\* 'a': the question takes the story from the panel, as it is on show.
AskAI ==
    /\ OnMain /\ asks < MaxAsks
    /\ asks' = asks + 1
    /\ pending' = pending \union {[id |-> asks + 1, host |-> SelectedIP, story |-> story]}
    /\ aiView' = "connecting"
    /\ open' = open \union {"aiModal"}
    /\ UNCHANGED <<app, bpf, installed, table, row, story>>

Quit == OnMain /\ app' = "stopped" /\ UNCHANGED <<uiVars, aiVars>>

\* Mutant of AIAnswer: a failed request is given up without a word.
AIAnswerOnlyIfReached ==
    /\ app = "running"
    /\ \E q \in pending : q.id > 1 /\ pending' = pending \ {q} /\ aiView' = q.id
    /\ UNCHANGED <<app, uiVars, asks>>

\* GenerateIncidentSummary always has an answer, its own if need be, after
\* the client's time-out at the latest; the event loop shows it.
AIAnswer ==
    /\ app = "running"
    /\ \E q \in pending : pending' = pending \ {q} /\ aiView' = q.id
    /\ UNCHANGED <<app, uiVars, asks>>
-----------------------------------------------------------------------------
(* Dashboard.Run *)

\* app.Run has made itself a screen; until then the loop does nothing.
Start ==
    /\ app = "starting" /\ app' = "running"
    /\ UNCHANGED <<uiVars, repaintVars, aiVars>>

\* Mutant of RepaintStop: the goroutine returns and leaves the loop running.
RepaintStopAlone ==
    /\ repaint = "wait" /\ ctxDone
    /\ repaint' = "done"
    /\ UNCHANGED <<app, uiVars, aiVars, frame>>

\* The Stop of a loop that has no screen yet does nothing.
RepaintStop ==
    /\ repaint = "wait" /\ ctxDone
    /\ app' = IF app = "starting" THEN app ELSE "stopped"
    /\ repaint' = "done"
    /\ UNCHANGED <<uiVars, aiVars, frame>>

RepaintTick ==
    /\ repaint = "wait"
    /\ repaint' = "select" /\ frame' = [frame EXCEPT !.snap = snap]
    /\ UNCHANGED <<app, uiVars, aiVars>>

\* SelectedIP is read outside the event loop.
RepaintSelect ==
    /\ repaint = "select"
    /\ repaint' = "queued" /\ frame' = [frame EXCEPT !.selected = SelectedIP]
    /\ UNCHANGED <<app, uiVars, aiVars>>

Draw ==
    /\ repaint = "queued" /\ app = "running"
    /\ UpdateTable(frame.snap)
    /\ UpdateStory(frame.selected)
    /\ repaint' = "wait"
    /\ UNCHANGED <<app, open, bpf, installed, aiVars, frame>>

Repaint == RepaintStop \/ RepaintTick \/ RepaintSelect \/ Draw
-----------------------------------------------------------------------------
Next ==
    \/ (Cancel \/ Publish) /\ UNCHANGED <<app, uiVars, repaintVars, aiVars>>
    \/ (UiKey \/ AskAI \/ Quit \/ AIAnswer) /\ UNCHANGED <<ctxDone, snap, published, repaintVars>>
    \/ (Start \/ Repaint) /\ UNCHANGED <<ctxDone, snap, published>>

Spec == Init /\ [][Next]_vars

\* The event loop serves its queue, the goroutines run, an answer or the
\* time-out comes; the select does not overlook ctx.Done() for ever.
Fairness ==
    /\ WF_vars(Start /\ UNCHANGED <<ctxDone, snap, published>>)
    /\ WF_vars((RepaintSelect \/ Draw) /\ UNCHANGED <<ctxDone, snap, published>>)
    /\ WF_vars(RepaintTick /\ UNCHANGED <<ctxDone, snap, published>>)
    /\ SF_vars(RepaintStop /\ UNCHANGED <<ctxDone, snap, published>>)
    /\ WF_vars(AIAnswer /\ UNCHANGED <<ctxDone, snap, published, repaintVars>>)

FairSpec == Spec /\ Fairness
-----------------------------------------------------------------------------
\* The type invariant of the dashboard, its pages included: one modal at most.
TypeOK ==
    /\ open \subseteq Panels \union {"filterModal"} /\ Cardinality(open) <= 1
    /\ bpf \in Filters \union {Blank, Spaces} /\ installed \in Filters \union {Blank}
    /\ table \in Rankings \union {<<>>} /\ row \in 0..Len(table)
    /\ \A q \in pending : q.id \in 1..asks

(***************************************************************************)
(* A filter that the top bar and the exported report show is the one that  *)
(* is in the handle, whatever was typed, refused or given up in between;   *)
(* nothing is said of an expression of white space.                        *)
(***************************************************************************)
ShownFilterIsInstalled == bpf \notin {Blank, Spaces} => installed = bpf

\* The top bar shows "None" for the empty expression only (topbar.go:43): what it
\* shows as a filter is one.
ShownMeansInstalled == bpf # Blank => installed = bpf

(***************************************************************************)
(* "Press Enter to apply, ESC to cancel" (dashboard.go:137): whatever the  *)
(* modal took with Enter is in effect, the removal of the filter included. *)
(***************************************************************************)
EnteredFilterApplies == installed = bpf

\* "View Host Flow Story Narrative for selected talker IP" (README.md:194).
StoryIsOfSelected == "storyModal" \in open => story = SelectedIP

\* The prompt speaks of one host: the narrative and the logs "for host '%s'"
\* (ollama.go:64) are those of the host it names.
PromptIsAboutOneHost == \A q \in pending : q.story = q.host

\* The cancellation ends a dashboard that is on the screen, whatever it is in the
\* middle of, unless the repaint goroutine had seen it before.
DashboardStops == ctxDone /\ app = "running" /\ repaint # "done" ~> app = "stopped"

\* An interrupt cancels (main.go:124-127) and the cancellation stops the loop
\* (dashboard.go:353): one that is still starting ends, too.
CancellationEndsDashboard == ctxDone ~> app = "stopped"

\* Every question to the AI is answered, with or without an AI.
QuestionAnswered ==
    \A id \in 1..MaxAsks :
        asks >= id ~> app = "stopped" \/ \A q \in pending : q.id # id
=============================================================================
