--------------------------- MODULE UserQuestions ---------------------------
(***************************************************************************)
(* The questions that the model puts to the user: the broker behind the    *)
(* tools ask_user_question and exit_plan_mode (user_question.rs), the form *)
(* on the screen with a draft for each question of a batch                 *)
(* (cli/user_question.rs), and what the turn's loop does with both and     *)
(* with the composer that a free answer borrows (cli/interactive.rs).      *)
(* UserSideProofs proves what is stated here.                              *)
(*                                                                         *)
(* Options are numbered from 1 and stand for their labels.  A text stands  *)
(* for all that trim to it.  Retry marks and frames are left out but for   *)
(* the fact that one is being written, and so are the approvals, which     *)
(* TerminalTurn has.                                                       *)
(***************************************************************************)
EXTENDS Naturals, Sequences, FiniteSets

CONSTANTS
    Calls,     \* calls of the two tools, each made once
    Forms,     \* requests: their questions, and whether detail and intent are sound
    Texts,     \* custom answers that are valid
    Enhanced,  \* whether the terminal is the enhanced one
    None       \* no call

VARIABLES
    call,      \* the tool's side of each call: UserQuestionBroker::ask
    queue,     \* the broker's channel of one envelope
    wire,      \* the one-shot response of each envelope
    ui,        \* UserQuestionUiState, the pending frame and where the loop stands
    overlay,   \* InputMemory::composer_overlay
    turn,      \* "off", "main", "stopped", "broken", "drain" or "exited"
    stopping   \* the turn's token is cancelled or its deadline is over

vars == <<call, queue, wire, ui, overlay, turn, stopping>>

Blank == "blank"
Bad == "bad"
Written == Texts \cup {Blank, Bad}

NewDraft == [selected |-> <<>>, custom |-> Blank, skipped |-> FALSE]
NoUi == [pc |-> "top", frame |-> FALSE, active |-> None, phase |-> "inactive", current |-> 1,
         drafts |-> <<>>]
Open == [kind |-> "open", answers |-> <<>>]

Init ==
    /\ call = [c \in Calls |-> [pc |-> "idle", form |-> None, result |-> "none", answers |-> <<>>]]
    /\ queue = None
    /\ wire = [c \in Calls |-> Open]
    /\ ui = NoUi /\ overlay = FALSE
    /\ turn = "off" /\ stopping = FALSE

Questions(c) == call[c].form.questions
Question == Questions(ui.active)[ui.current]
Draft == ui.drafts[ui.current]

-----------------------------------------------------------------------------
(* Drafts and answers.                                                     *)

Answers(q, d) == d.skipped \/ d.custom \in Texts \/ d.selected # <<>>

\* QuestionDraft::response, for a draft that answers.
Response(q, d) ==
    LET custom == ~d.skipped /\ d.custom \in Texts
        chosen == ~d.skipped /\ d.selected # <<>> /\ (q.multi \/ ~custom)
    IN  [kind |-> IF d.skipped THEN "skipped"
                  ELSE IF custom THEN IF chosen THEN "multi_custom" ELSE "custom"
                  ELSE IF q.multi THEN "multi" ELSE "selected",
         selected |-> IF ~chosen THEN <<>>
                      ELSE IF q.multi THEN d.selected ELSE <<d.selected[1]>>,
         custom |-> IF custom THEN d.custom ELSE Blank]

InRange(s, q) == \A i \in DOMAIN s : s[i] \in 1 .. q.options
Distinct(s) == \A i, j \in DOMAIN s : s[i] = s[j] => i = j

\* response_is_valid
IsValid(a, q) ==
    /\ a.kind \in {"skipped", "selected", "multi", "custom", "multi_custom"}
    /\ a.kind = "selected" => ~q.multi /\ InRange(a.selected, q)
    /\ a.kind \in {"multi", "multi_custom"} =>
         q.multi /\ InRange(a.selected, q) /\ Distinct(a.selected)
    /\ a.kind = "multi" => a.selected # <<>>
    /\ a.kind \in {"custom", "multi_custom"} => a.custom \in Texts

AreValid(as, qs) == Len(as) = Len(qs) /\ \A k \in DOMAIN qs : IsValid(as[k], qs[k])

\* UserQuestionEnvelope::answer and cancel.  A refusal drops the envelope; a receiver that
\* is gone hears nothing.
Waits(c) == call[c].pc = "asking"
Reply(c, reply) == wire' = [wire EXCEPT ![c] = IF Waits(c) THEN reply ELSE @]
AnswerWith(c, as) ==
    Reply(c, IF AreValid(as, Questions(c)) THEN [kind |-> "answered", answers |-> as]
             ELSE [kind |-> "refused", answers |-> <<>>])
Dismiss(c) == Reply(c, [kind |-> "dismissed", answers |-> <<>>])
Discard(c) == Reply(c, [kind |-> "dropped", answers |-> <<>>])

-----------------------------------------------------------------------------
(* The tool's side.  Both tools are exclusive: one call asks at a time.    *)

Polled == turn \in {"stopped", "broken"} \/ (turn = "main" /\ ui.pc = "select")

Returns(c, result, answers) ==
    call' = [call EXCEPT ![c] = [@ EXCEPT !.pc = "done", !.result = result, !.answers = answers]]

Ask(c, form) ==
    /\ Polled /\ call[c].pc = "idle" /\ \A d \in Calls : ~Waits(d)
    /\ LET ends(result) ==
             /\ call' = [call EXCEPT ![c] = [pc |-> "done", form |-> form, result |-> result,
                                             answers |-> <<>>]]
             /\ UNCHANGED queue
       IN  \/ stopping /\ ends("cancelled")
           \/ ~stopping /\ ~form.sound /\ ends("invalid")
           \/ ~stopping /\ form.sound /\ queue # None /\ ends("unavailable")
           \/ /\ ~stopping /\ form.sound /\ queue = None
              /\ queue' = c
              /\ call' = [call EXCEPT ![c] = [pc |-> "asking", form |-> form, result |-> "none",
                                              answers |-> <<>>]]
    /\ UNCHANGED <<wire, ui, overlay, turn, stopping>>

\* ask reads the response once more: each custom text, and each label by its number.
Readable(as, qs) ==
    /\ Len(as) = Len(qs)
    /\ \A k \in DOMAIN qs :
         /\ as[k].kind \in {"custom", "multi_custom"} => as[k].custom \in Texts
         /\ as[k].kind \in {"selected", "multi", "multi_custom"} => InRange(as[k].selected, qs[k])

\* The agent that prepares the call waits past the tool's own deadline, and throws away
\* what comes then: a late answer is lost.
TooLate(c) == wire[c] # Open /\ Returns(c, "timeout", <<>>)

AskEnds(c) ==
    /\ Polled /\ Waits(c)
    /\ \/ stopping /\ Returns(c, "cancelled", <<>>)
       \/ ~stopping /\ wire[c].kind = "dismissed" /\ Returns(c, "dismissed", <<>>)
       \/ ~stopping /\ wire[c].kind \in {"dropped", "refused"} /\ Returns(c, "unavailable", <<>>)
       \/ /\ ~stopping /\ wire[c].kind = "answered"
          /\ IF Readable(wire[c].answers, Questions(c)) THEN Returns(c, "ok", wire[c].answers)
             ELSE Returns(c, "invalid", <<>>)
       \/ ~stopping /\ TooLate(c)
    /\ UNCHANGED <<queue, wire, ui, overlay, turn, stopping>>

DeadlinePasses ==
    /\ turn = "main" /\ stopping' = TRUE
    /\ UNCHANGED <<call, queue, wire, ui, overlay, turn>>

-----------------------------------------------------------------------------
(* The form.                                                               *)

\* UserQuestionUiState::show_question and reset.
Show(u, k) == [u EXCEPT !.current = k, !.phase = "received"]
Closed(u) == [NoUi EXCEPT !.pc = u.pc, !.frame = u.frame]

Missing(u) ==
    {k \in DOMAIN u.drafts : ~Answers(Questions(u.active)[k], u.drafts[k])}
Responses(u) ==
    [k \in DOMAIN u.drafts |-> Response(Questions(u.active)[k], u.drafts[k])]

\* finish_or_focus_missing
FinishOrFocus(u) ==
    \/ \E k \in Missing(u) :
         /\ \A j \in Missing(u) : k <= j
         /\ ui' = Show(u, k) /\ UNCHANGED wire
    \/ /\ Missing(u) = {}
       /\ ui' = Closed(u) /\ AnswerWith(u.active, Responses(u))

\* advance_after_answer, and next, which ends alike.
Advance(u) ==
    \/ /\ u.current < Len(u.drafts)
       /\ ui' = Show(u, u.current + 1) /\ UNCHANGED wire
    \/ u.current >= Len(u.drafts) /\ FinishOrFocus(u)

With(d) == [ui EXCEPT !.pc = "top", !.drafts[ui.current] = d]
Here == [ui EXCEPT !.pc = "top"]

-----------------------------------------------------------------------------
(* The turn's loop: what it does before it waits, and its other events.    *)

Selecting == turn = "main" /\ ui.pc = "select"
LoopOnly == UNCHANGED <<call, queue>>

\* An error leaves the loop: the composer is restored, the form is cancelled.
Breaks(u) ==
    /\ ui' = [Closed(u) EXCEPT !.frame = FALSE]
    /\ overlay' = FALSE /\ turn' = "broken" /\ stopping' = TRUE
    /\ IF u.active = None THEN UNCHANGED wire ELSE Dismiss(u.active)

\* A stop is latched: the loop only waits for the future of the agent.
Stops(u) ==
    /\ ui' = [u EXCEPT !.frame = FALSE, !.pc = "top"]
    /\ turn' = "stopped" /\ stopping' = TRUE

NoStop == UNCHANGED <<turn, stopping>>

\* begin_question_overlay_with fails while an overlay is up.
Borrow(u) ==
    IF overlay THEN Breaks(u)
    ELSE ui' = u /\ overlay' = TRUE /\ UNCHANGED wire /\ NoStop

\* enqueue_frame fails while another frame waits.
Enqueue(u) ==
    IF u.frame THEN Breaks(u)
    ELSE ui' = [u EXCEPT !.frame = TRUE] /\ UNCHANGED <<wire, overlay>> /\ NoStop

\* begin_accepting, then the frame of a question that is to be shown.
Top ==
    /\ turn = "main" /\ ui.pc = "top"
    /\ LET u == [ui EXCEPT !.pc = "select"]
       IN  \/ /\ ~ui.frame /\ ui.phase = "rendering"
              /\ LET v == [u EXCEPT !.phase = IF Question.options > 0 THEN "selecting"
                                              ELSE "custom"]
                 IN  IF Enhanced /\ (Question.multi \/ Question.options = 0) THEN Borrow(v)
                     ELSE ui' = v /\ UNCHANGED <<wire, overlay>> /\ NoStop
           \/ /\ ~ui.frame /\ ui.phase = "received"
              /\ ui' = [u EXCEPT !.phase = "rendering", !.frame = TRUE]
              /\ UNCHANGED <<wire, overlay>> /\ NoStop
           \/ /\ ui.frame \/ ui.phase \notin {"rendering", "received"}
              /\ ui' = u
              /\ UNCHANGED <<wire, overlay>> /\ NoStop
    /\ LoopOnly

\* A committed row is shown.
EventShown ==
    /\ Selecting /\ ~ui.frame
    /\ ui' = [Here EXCEPT !.frame = TRUE]
    /\ UNCHANGED <<wire, overlay>> /\ NoStop /\ LoopOnly

FrameWritten ==
    /\ Selecting /\ ui.frame
    /\ ui' = [Here EXCEPT !.frame = FALSE]
    /\ UNCHANGED <<wire, overlay>> /\ NoStop /\ LoopOnly

\* UserQuestionUiState::receive.  A second form is an error that stops the turn.
Receive ==
    /\ Selecting /\ queue # None
    /\ queue' = None
    /\ IF ui.active = None
       THEN /\ ui' = [Show(Here, 1) EXCEPT
                         !.active = queue,
                         !.drafts = [k \in DOMAIN Questions(queue) |-> NewDraft]]
            /\ UNCHANGED wire /\ NoStop
       ELSE Stops(ui) /\ Discard(queue)
    /\ UNCHANGED <<call, overlay>>

\* A signal, a fault of the observer, a frame that is late, the end of the input stream.
Stop ==
    /\ Selecting
    /\ Stops(ui)
    /\ UNCHANGED <<call, queue, wire, overlay>>

\* Any error of the terminal leaves the loop.
Fails ==
    /\ turn = "main"
    /\ Breaks(ui) /\ LoopOnly

\* Part of a line, blanks, a resize.
Ignored ==
    /\ Selecting
    /\ ui' = Here
    /\ UNCHANGED <<wire, overlay>> /\ NoStop /\ LoopOnly

-----------------------------------------------------------------------------
(* The keyboard.                                                           *)

\* The lists of options, and the line of a linear free answer.
Listing == Selecting /\ (ui.phase = "selecting" \/ (ui.phase = "custom" /\ ~Enhanced))
Choosing == Selecting /\ ui.phase = "selecting"
\* A free answer that is edited in the borrowed composer; finish_question_overlay fails
\* where none is up.
Editing == Selecting /\ ui.phase = "custom" /\ Enhanced
Restored == overlay' = FALSE /\ NoStop
Kept == UNCHANGED overlay /\ NoStop

Select ==
    /\ Choosing /\ ~Question.multi
    /\ \E i \in 1 .. Question.options :
         Advance(With([NewDraft EXCEPT !.selected = <<i>>]))
    /\ Kept /\ LoopOnly

\* Vec::remove of the position of i, or a push.
Without(s, n) == SubSeq(s, 1, n - 1) \o SubSeq(s, n + 1, Len(s))
Place(s, i) == CHOOSE n \in DOMAIN s : s[n] = i
Toggled(s, i) ==
    IF \E n \in DOMAIN s : s[n] = i THEN Without(s, Place(s, i)) ELSE Append(s, i)

Toggle ==
    /\ Choosing /\ Question.multi
    /\ \E i \in 1 .. Question.options :
         LET u == With([Draft EXCEPT !.skipped = FALSE, !.selected = Toggled(@, i)])
         IN  IF Enhanced THEN ui' = u /\ UNCHANGED wire /\ Kept ELSE Enqueue(u)
    /\ LoopOnly

SubmitMulti ==
    /\ Choosing /\ Question.multi /\ Answers(Question, Draft)
    /\ Advance(Here)
    /\ Restored /\ LoopOnly

Skip ==
    /\ Listing
    /\ Advance(With([NewDraft EXCEPT !.skipped = TRUE]))
    /\ Restored /\ LoopOnly

Previous ==
    /\ Listing
    /\ \/ ui.current > 1 /\ ui' = Show(Here, ui.current - 1) /\ UNCHANGED wire /\ Restored
       \/ ui.current <= 1 /\ ui' = Here /\ UNCHANGED wire /\ Kept
    /\ LoopOnly

NextQuestion ==
    /\ Listing
    /\ Advance(Here)
    /\ Restored /\ LoopOnly

\* begin_custom: a composer that a list of several options has borrowed is used as it is.
BeginCustom ==
    /\ Choosing
    /\ LET u == [With([Draft EXCEPT !.skipped = FALSE,
                                    !.selected = IF Question.multi THEN @ ELSE <<>>])
                   EXCEPT !.phase = "custom"]
       IN  IF ~Enhanced THEN Enqueue(u)
           ELSE IF overlay THEN ui' = u /\ UNCHANGED wire /\ Kept
           ELSE Borrow(u)
    /\ LoopOnly

\* submit_custom: an empty text keeps what was selected among several.
KeepsSelection(text) == text = Blank /\ Question.multi /\ Draft.selected # <<>>
SubmitsText(text) == text \in Texts \/ KeepsSelection(text)
AfterSubmit(text) ==
    [Draft EXCEPT !.skipped = FALSE, !.custom = text,
                  !.selected = IF text \in Texts /\ ~Question.multi THEN <<>> ELSE @]

SubmitLine ==
    /\ Selecting /\ ui.phase = "custom" /\ ~Enhanced
    /\ \E text \in Written :
         \/ SubmitsText(text) /\ Advance(With(AfterSubmit(text))) /\ Kept
         \/ ~SubmitsText(text) /\ Enqueue(With(AfterSubmit(text)))
    /\ LoopOnly

SubmitText ==
    /\ Editing
    /\ \E text \in Written :
         \/ ~overlay /\ Breaks(ui)
         \/ overlay /\ SubmitsText(text) /\ Advance(With(AfterSubmit(text))) /\ Restored
         \/ /\ overlay /\ ~SubmitsText(text)
            /\ ui' = With(AfterSubmit(text)) /\ UNCHANGED wire /\ Kept
    /\ LoopOnly

\* store_custom_draft, then previous or next; where there is no such page the text is
\* borrowed again.
TurnPage ==
    /\ Editing
    /\ \E text \in Written :
         LET u == With([Draft EXCEPT !.custom = text, !.skipped = FALSE])
         IN  \/ ~overlay /\ Breaks(ui)
             \/ overlay /\ ui.current > 1 /\ ui' = Show(u, ui.current - 1) /\ UNCHANGED wire
                  /\ Restored
             \/ overlay /\ ui.current <= 1 /\ ui' = u /\ UNCHANGED wire /\ Kept
             \/ overlay /\ Advance(u) /\ Restored
    /\ LoopOnly

SkipText ==
    /\ Editing
    /\ \/ ~overlay /\ Breaks(ui)
       \/ overlay /\ Advance(With([NewDraft EXCEPT !.skipped = TRUE])) /\ Restored
    /\ LoopOnly

\* A key that means nothing here: a list of one choice is shown again, the others stay.
Invalid ==
    /\ Selecting /\ ui.phase \in {"selecting", "custom"}
    /\ IF ui.phase = "selecting" /\ ~Question.multi
       THEN ui' = [Here EXCEPT !.phase = "received"] /\ UNCHANGED wire /\ Kept
       ELSE IF Enhanced THEN ui' = Here /\ UNCHANGED wire /\ Kept
       ELSE Enqueue(Here)
    /\ LoopOnly

Escape ==
    /\ Selecting /\ ui.phase \in {"selecting", "custom"}
    /\ \/ Editing /\ ~overlay /\ Breaks(ui)
       \/ /\ ~Editing \/ overlay
          /\ ui' = Closed(Here) /\ Dismiss(ui.active)
          /\ Restored
    /\ LoopOnly

\* Ctrl-D.
Eof ==
    /\ Selecting /\ ui.phase \in {"selecting", "custom"}
    /\ \/ Editing /\ ~overlay /\ Breaks(ui)
       \/ /\ ~Editing \/ overlay
          /\ Stops(Closed(ui)) /\ Dismiss(ui.active)
          /\ overlay' = FALSE
    /\ LoopOnly

Key ==
    \/ Select \/ Toggle \/ SubmitMulti \/ Skip \/ Previous \/ NextQuestion \/ BeginCustom
    \/ SubmitLine \/ SubmitText \/ TurnPage \/ SkipText \/ Invalid \/ Escape \/ Eof

-----------------------------------------------------------------------------
(* The ends of a turn.                                                     *)

StartTurn ==
    /\ turn = "off"
    /\ turn' = "main" /\ stopping' = FALSE /\ ui' = NoUi
    /\ UNCHANGED <<call, queue, wire, overlay>>

\* The future of the agent is done: no call asks any more.  Without a stop the rows that are
\* left are shown first.  Nothing empties the broker's channel.
TurnReady ==
    /\ Polled /\ \A c \in Calls : ~Waits(c)
    /\ ui' = NoUi /\ overlay' = FALSE
    /\ turn' = CASE turn = "main" -> "drain" [] turn = "stopped" -> "off" [] OTHER -> "exited"
    /\ UNCHANGED <<call, queue, wire, stopping>>

\* Among the last rows an envelope is an error.
Drained ==
    /\ turn = "drain"
    /\ \/ queue # None /\ queue' = None /\ Discard(queue) /\ turn' = "exited"
       \/ UNCHANGED <<queue, wire>> /\ turn' \in {"off", "exited"}
    /\ UNCHANGED <<call, ui, overlay, stopping>>

\* A stop that is not an interrupt ends the terminal.
StopExits ==
    /\ turn = "off"
    /\ turn' = "exited"
    /\ UNCHANGED <<call, queue, wire, ui, overlay, stopping>>

Next ==
    \/ \E c \in Calls : AskEnds(c) \/ \E form \in Forms : Ask(c, form)
    \/ DeadlinePasses \/ Top \/ EventShown \/ FrameWritten \/ Receive \/ Stop \/ Fails
    \/ Ignored \/ Key
    \/ StartTurn \/ TurnReady \/ Drained \/ StopExits

Spec == Init /\ [][Next]_vars

-----------------------------------------------------------------------------
(* What the questions guarantee.                                           *)

\* No answer that a user has completed is refused: the broker and the tool take every form
\* that the terminal submits, and what the tool then returns has one valid answer for each
\* question, in order.  A call is invalid only for its request, which was never shown.
AnswerIsTaken ==
    /\ \A c \in Calls :
         /\ wire[c].kind # "refused"
         /\ call[c].result = "invalid" => ~call[c].form.sound /\ wire[c] = Open
         /\ call[c].result = "ok" => AreValid(call[c].answers, Questions(c))

\* The composer is borrowed exactly while a list of several options or a free answer is open
\* on the enhanced terminal: it is never borrowed twice nor given back twice, either of which
\* would end the turn, and no turn begins or ends with the user's own draft hidden.
ComposerIsOwed ==
    overlay <=> /\ Enhanced /\ ui.active # None
                /\ \/ ui.phase = "custom"
                   \/ ui.phase = "selecting" /\ Question.multi

\* While a form stays open a step changes the draft of the question that was shown and no
\* other: going back and forth, or back to the first one missing, loses no answer.
OthersStay ==
    ui.active # None /\ ui'.active = ui.active =>
      /\ DOMAIN ui'.drafts = DOMAIN ui.drafts
      /\ \A k \in DOMAIN ui.drafts : k # ui.current => ui'.drafts[k] = ui.drafts[k]
DraftsStay == [][OthersStay]_vars
=============================================================================
