------------------------------ MODULE PreviewUi ------------------------------
(* The page of api/rest/ui.py: one thread of JavaScript whose handlers give  *)
(* way to each other, and to the user's typing, wherever they await the      *)
(* server.  All of its buttons are disabled while one of them works; the     *)
(* list of workspaces is no button.                                          *)
EXTENDS Integers, FiniteSets

CONSTANTS
  UiSessions,      \* sessions that the user may type or create
  NoSession,
  HandlersAtOnce   \* bound: handlers that run at the same time

ASSUME PreviewUiAssumption ==
  NoSession \notin UiSessions /\ HandlersAtOnce \in Nat \ {0}

(* field: what the input field of the session says; meta, listed: the        *)
(* sessions whose state and whose workspaces are shown; busy: the buttons are*)
(* disabled; joined: a workspace was clicked while another handler ran;      *)
(* output: what the result panel shows, for the job of which session if it is*)
(* one, and whether that session was refreshed and the field left alone      *)
(* meanwhile; handlers: what each running handler awaits, and of which       *)
(* session it asks that.                                                     *)
VARIABLE ui   \* node, field, meta, listed, busy, joined, output, handlers

Output(kind, job, sure) == [kind |-> kind, job |-> job, sure |-> sure]

NoHandler == [kind |-> "none", awaits |-> "nothing", asks |-> NoSession, job |-> NoSession, sure |-> FALSE]
HandlerIds == 1..HandlersAtOnce

NewUi ==
  [node |-> "open", field |-> NoSession, meta |-> NoSession, listed |-> NoSession, busy |-> FALSE,
   joined |-> FALSE, output |-> Output("ready", NoSession, FALSE),
   handlers |-> [n \in HandlerIds |-> NoHandler]]

UiInit == ui = NewUi

RunningHandlers == {n \in HandlerIds : ui.handlers[n] # NoHandler}

-----------------------------------------------------------------------------
(* run, up to the first await of its task *)

\* The kinds of buttons: a job that is followed to its end, a request whose
\* answer is shown, and those that also refresh what is shown of the session.
Buttons == {"create session", "load session", "list workspaces", "job", "select", "request"}

Begin(kind, joined) ==
  \E n \in HandlerIds \ RunningHandlers :
    ui' = [ui EXCEPT !.busy = TRUE, !.joined = joined, !.output = Output("notice", NoSession, FALSE),
                     !.handlers[n] = [kind |-> kind, awaits |-> "answer",
                                      asks |-> IF kind = "create session" THEN NoSession ELSE ui.field,
                                      job |-> IF kind = "job" THEN ui.field ELSE NoSession,
                                      sure |-> kind = "job"]]

\* The task ends before it awaits anything.
EndAtOnce(outcome) == ui' = [ui EXCEPT !.busy = FALSE, !.output = Output(outcome, NoSession, FALSE)]

Press(kind) ==
  /\ ui.node = "open" /\ ~ui.busy
  /\ kind = "create session" \/ ui.field # NoSession
  /\ Begin(kind, ui.joined /\ RunningHandlers # {})

\* requireSession, requireText, requireArxivUrl, requirePdfFile, optionalText;
\* only "load session" takes an empty field for nothing to do.
PressInVain(kind) ==
  /\ ui.node = "open" /\ ~ui.busy
  /\ \/ kind = "load session" /\ ui.field = NoSession /\ EndAtOnce("result")
     \/ kind = "list workspaces" /\ ui.field = NoSession /\ EndAtOnce("error")
     \/ kind \notin {"load session", "list workspaces"} /\ EndAtOnce("error")

ChangeToken ==
  /\ ui.node = "open" /\ ~ui.busy
  /\ ui' = [ui EXCEPT !.output = Output("result", NoSession, FALSE)]

OpenWorkspace ==
  /\ ui.node = "open" /\ ui.listed # NoSession /\ ui.field # NoSession
  /\ Begin("workspace", RunningHandlers # {})

TypeSession(s) ==
  /\ ui.node = "open" /\ s # ui.field
  /\ ui' = [ui EXCEPT !.field = s,
                      !.handlers = [n \in HandlerIds |-> [ui.handlers[n] EXCEPT !.sure = FALSE]]]

-----------------------------------------------------------------------------
(* After an await *)

\* Mutant: the buttons are enabled behind the result and not in finally.
Ended_NoFinally(state, n, outcome, sure) ==
  [state EXCEPT !.busy = @ /\ outcome = "error", !.handlers[n] = NoHandler,
                !.output = Output(outcome, state.handlers[n].job, sure)]

\* The rest of run: the outcome, and finally the buttons.
Ended(state, n, outcome, sure) ==
  [state EXCEPT !.busy = FALSE, !.handlers[n] = NoHandler,
                !.output = Output(outcome, state.handlers[n].job, sure)]

\* renderSession also writes the field.
Rendered(state, session) == [state EXCEPT !.field = session, !.meta = session]

\* refreshSession and refreshWorkspaces ask for the session of the field.
Refreshing(state, n, part) ==
  IF state.field = NoSession THEN Ended(state, n, "result", FALSE)
  ELSE [state EXCEPT !.handlers[n].awaits = part, !.handlers[n].asks = state.field]

Awaiting(n, kinds) == ui.handlers[n].awaits = "answer" /\ ui.handlers[n].kind \in kinds

AnswerRequest(n) ==
  /\ Awaiting(n, {"request", "workspace"})
  /\ ui' = Ended(ui, n, "result", FALSE)

AnswerSelection(n) ==
  /\ Awaiting(n, {"select"})
  /\ ui' = Refreshing(ui, n, "session")

AnswerCreate(n, s) ==
  /\ Awaiting(n, {"create session"})
  /\ ui' = Refreshing(Rendered(ui, s), n, "workspaces")

AnswerLoad(n) ==
  /\ Awaiting(n, {"load session"})
  /\ ui' = Ended(Rendered(ui, ui.handlers[n].asks), n, "result", FALSE)

AnswerList(n) ==
  /\ Awaiting(n, {"list workspaces"})
  /\ ui' = Ended([ui EXCEPT !.listed = ui.handlers[n].asks], n, "result", FALSE)

\* fetch rejects, or the response is not ok.
AnswerIsError(n) ==
  /\ ui.handlers[n].awaits \in {"answer", "job"}
  /\ ui' = Ended(ui, n, "error", FALSE)

\* runJobStatus: a poll follows until the job is over, or the half hour is,
\* whatever the last answer was.
FollowJob(n, status) ==
  /\ Awaiting(n, {"job"}) \/ ui.handlers[n].awaits = "job"
  /\ LET noticed == [ui EXCEPT !.output = Output("notice", NoSession, FALSE)] IN
       ui' = CASE status = "succeeded" -> Refreshing(noticed, n, "session")
               [] status \in {"failed", "canceled"} -> Ended(noticed, n, "error", FALSE)
               [] OTHER -> [noticed EXCEPT !.handlers[n].awaits = "job"]

GiveUpJob(n) ==
  /\ ui.handlers[n].awaits = "job"
  /\ ui' = Ended(ui, n, "error", FALSE)

\* A refresh that fails is passed over.
RefreshSession(n) ==
  /\ ui.handlers[n].awaits = "session"
  /\ \E ok \in BOOLEAN :
       LET h == ui.handlers[n]
           seen == [(IF ok THEN Rendered(ui, h.asks) ELSE ui) EXCEPT !.handlers[n].sure = @ /\ ok]
       IN ui' = IF h.kind = "job" THEN Refreshing(seen, n, "workspaces")
                ELSE Ended(seen, n, "result", seen.handlers[n].sure)

RefreshWorkspaces(n) ==
  /\ ui.handlers[n].awaits = "workspaces"
  /\ \/ ui' = Ended([ui EXCEPT !.listed = ui.handlers[n].asks], n, "result", ui.handlers[n].sure)
     \/ ui' = Ended(ui, n, "result", FALSE)

Statuses == {"queued", "running", "succeeded", "failed", "canceled"}

UiNext ==
  \/ \E kind \in Buttons : Press(kind) \/ PressInVain(kind)
  \/ ChangeToken \/ OpenWorkspace
  \/ \E s \in UiSessions \cup {NoSession} : TypeSession(s)
  \/ \E n \in HandlerIds :
       \/ AnswerRequest(n) \/ AnswerSelection(n) \/ AnswerLoad(n) \/ AnswerList(n) \/ AnswerIsError(n)
       \/ \E s \in UiSessions : AnswerCreate(n, s)
       \/ \E status \in Statuses : FollowJob(n, status)
       \/ GiveUpJob(n) \/ RefreshSession(n) \/ RefreshWorkspaces(n)

-----------------------------------------------------------------------------
(* Properties *)

\* The buttons come back when the last handler ends, however it ends, and the
\* panel then shows an outcome.  Unless a workspace is clicked meanwhile, one
\* handler runs at a time with the buttons disabled, so that no click asks for
\* a job twice, and the panel shows that it works.  And a job whose refreshes
\* succeed while nobody types leaves the page on its own session.
UiIsOrderly ==
  /\ RunningHandlers = {} => ~ui.busy /\ ui.output.kind # "notice"
  /\ RunningHandlers # {} /\ ~ui.joined =>
       ui.busy /\ Cardinality(RunningHandlers) = 1 /\ ui.output.kind = "notice"
  /\ ui.output.kind = "result" /\ ui.output.sure /\ ~ui.joined =>
       ui.meta = ui.output.job /\ ui.listed = ui.output.job
=============================================================================
