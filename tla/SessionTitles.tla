--------------------------- MODULE SessionTitles ---------------------------
(***************************************************************************)
(* The title of a session (agent/session_title.rs, session/title.rs): a    *)
(* fallback cut from a prompt, one request to the provider for a better    *)
(* one, which runs beside the turn and is taken over only where the agent  *)
(* is between two turns, and the user's commands /rename and               *)
(* /refresh-title, which supersede it.  What a restart does with titles is *)
(* decided by the rows that survived.  UserSideProofs proves what is       *)
(* stated here, for logs of any length.                                    *)
(***************************************************************************)
EXTENDS Naturals, Sequences

CONSTANTS
    Enabled,    \* the provider is one whose sessions are titled
    Refines     \* ModelProvider::supports_session_titles

VARIABLES
    log,        \* prompts, titles and requests for titles, in the order of their rows
    synced,     \* how many of them a crash cannot lose
    state,      \* TitleState
    about,      \* the prompt that TitleState::Pending or the task is about
    task,       \* the request that runs beside the agent
    agent       \* where the agent is

vars == <<log, synced, state, about, task, agent>>

Kinds == {"prompt", "fallback", "request", "title", "user"}
TitleKinds == {"fallback", "title", "user"}

\* A row is about the prompt at index "of", and stems from the automatic path or
\* from a command.
Row(kind, of, by) == [kind |-> kind, of |-> of, by |-> by]
IsPrompt(i) == i \in DOMAIN log /\ log[i].kind = "prompt"
\* session_title_first_prompt.
IsFirstPrompt(i) == IsPrompt(i) /\ \A j \in 1 .. i - 1 : ~IsPrompt(j)
Titled == \E i \in DOMAIN log : log[i].kind \in TitleKinds
Requested == \E i \in DOMAIN log : log[i].kind = "request"
\* SessionState::session_title is the title of the last row that has one.
IsUsers == \E i \in DOMAIN log : log[i].kind = "user"
                /\ \A j \in i + 1 .. Len(log) : log[j].kind \notin TitleKinds

Init ==
    /\ log = <<>> /\ synced = 0
    /\ state = "done" /\ about = 0 /\ task = "none"
    /\ agent = "down"

\* An append that may be refused: the log is at its limit.  A failure of the
\* writer, behind which no row follows, is a crash behind the append.
Appends(row) == log' = Append(log, row)
Refused == log' = log

-----------------------------------------------------------------------------
\* SessionTitleRuntime::new, with the projection of the rows that were read.
Open ==
    /\ agent = "down"
    /\ agent' = "idle"
    /\ state' = IF ~Enabled \/ Titled \/ Requested THEN "done" ELSE "armed"
    /\ UNCHANGED <<log, synced, about, task>>

\* A task that has ended is collected.
Collect ==
    /\ state = "running" /\ task # "running"
    /\ state' = "done" /\ task' = "none"
    /\ \/ task = "accepted" /\ Appends(Row("title", about, "auto"))
       \/ Refused

NothingReady ==
    /\ ~(state = "running" /\ task # "running")
    /\ UNCHANGED <<log, state, task>>

\* collect_ready, at the points where the agent calls it: before a turn, after
\* it, and before an export or a fork.
BeginTurn ==
    /\ agent = "idle" /\ agent' = "turn"
    /\ Collect \/ NothingReady
    /\ UNCHANGED <<synced, about>>

EndTurn ==
    /\ agent = "turn" /\ agent' \in {"idle", "poisoned"}
    /\ Collect \/ NothingReady
    /\ UNCHANGED <<synced, about>>

ExportOrFork ==
    /\ agent = "idle"
    /\ Collect
    /\ UNCHANGED <<synced, about, agent>>

\* A step enters with a prompt of the user's, then record_fallback.
EnterStep ==
    /\ agent = "turn" /\ agent' = "entered"
    /\ Appends(Row("prompt", 0, "user"))
    /\ UNCHANGED <<synced, state, about, task>>

RecordFallback ==
    /\ agent = "entered" /\ agent' = "turn"
    /\ \/ /\ state = "armed"
          /\ Appends(Row("fallback", Len(log), "auto"))
          /\ state' = "pending" /\ about' = Len(log)
       \/ Refused /\ UNCHANGED <<state, about>>  \* not armed, no visible text, or refused
    /\ UNCHANGED <<synced, task>>

\* start_refinement, once a step's header is logged.  The row precedes the call.
StartRefinement ==
    /\ agent = "turn" /\ state = "pending"
    /\ \/ /\ Refines
          /\ Appends(Row("request", about, "auto"))
          /\ \/ state' = "running" /\ task' = "running"
             \/ state' = "done" /\ task' = task     \* no call can be made of the request
       \/ Refused /\ state' = "done" /\ task' = task
    /\ UNCHANGED <<synced, about, agent>>

\* run_title_request: a title, or none by an error, a bad stream or the timeout.
TaskEnds ==
    /\ task = "running"
    /\ task' \in {"accepted", "failed"}
    /\ UNCHANGED <<log, synced, state, about, agent>>

-----------------------------------------------------------------------------
\* supersede: whatever was pending, running or ready is given up.
Supersede == state' = "done" /\ task' = "none"

Rename ==
    /\ agent = "idle"
    /\ Supersede
    /\ Appends(Row("user", 0, "command")) \/ Refused
    /\ UNCHANGED <<synced, about, agent>>

\* refresh, up to the fallback of a session without a title; without a provider
\* for titles it ends there, and only replaces a title that is the user's.
Refresh ==
    /\ agent = "idle"
    /\ Supersede
    /\ \E first \in DOMAIN log :
          /\ IsFirstPrompt(first)
          /\ \/ /\ ~Titled \/ (~Refines /\ IsUsers)
                /\ Appends(Row("fallback", first, "command"))
                /\ agent' = IF Refines THEN "refresh" ELSE "idle"
             \/ Titled /\ Refines /\ Refused /\ agent' = "refresh"
             \/ Refused /\ agent' = "idle"  \* cancelled, unchanged, or refused
    /\ UNCHANGED <<synced, about>>

AskAgain ==
    /\ agent = "refresh"
    /\ \/ /\ \E first \in DOMAIN log :
                IsFirstPrompt(first) /\ Appends(Row("request", first, "command"))
          /\ agent' = "asking"
       \/ Refused /\ agent' = "idle"
    /\ UNCHANGED <<synced, state, about, task>>

\* The command itself waits for the answer, the timeout or its cancellation.
Answered ==
    /\ agent = "asking" /\ agent' = "idle"
    /\ \/ \E first \in DOMAIN log :
             IsFirstPrompt(first) /\ Appends(Row("title", first, "command"))
       \/ Refused
    /\ UNCHANGED <<synced, state, about, task>>

-----------------------------------------------------------------------------
\* A barrier of somebody's, and a crash, which keeps at least what is synced.
Sync ==
    /\ agent # "down"
    /\ synced' = Len(log)
    /\ UNCHANGED <<log, state, about, task, agent>>

\* shutdown: a title that is ready is still taken, a request that runs is stopped.
Shutdown ==
    /\ agent \in {"idle", "poisoned"} /\ agent' = "down"
    /\ \/ Collect
       \/ NothingReady /\ task = "none"
       \/ task = "running" /\ Supersede /\ Refused
    /\ synced' = Len(log')
    /\ UNCHANGED about

Crash ==
    /\ agent # "down" /\ agent' = "down"
    /\ \E n \in synced .. Len(log) : log' = SubSeq(log, 1, n)
    /\ Supersede
    /\ UNCHANGED <<synced, about>>

Next ==
    \/ Open \/ BeginTurn \/ EndTurn \/ ExportOrFork \/ EnterStep \/ RecordFallback
    \/ StartRefinement \/ TaskEnds
    \/ Rename \/ Refresh \/ AskAgain \/ Answered
    \/ Sync \/ Shutdown \/ Crash

Spec == Init /\ [][Next]_vars

-----------------------------------------------------------------------------
\* Once a command has set or asked for a title, no automatic row follows, in this
\* process or a later one: a late answer cannot replace the user's title.
CommandsWin ==
    \A i, j \in DOMAIN log : i < j /\ log[i].by = "command" => log[j].by # "auto"

\* The automatic path goes through fallback, request and answer at most once in
\* the life of a log, across restarts, about one and the same prompt, and an
\* answer is only recorded behind the row of its request.
AskedOnce ==
    /\ \A i, j \in DOMAIN log : i < j /\ log[i].by = "auto" /\ log[j].by = "auto" =>
          /\ log[i].of = log[j].of
          /\ <<log[i].kind, log[j].kind>> \in {<<"fallback", "request">>,
                 <<"fallback", "title">>, <<"request", "title">>}
    /\ \A j \in DOMAIN log : log[j].by = "auto" /\ log[j].kind = "title" =>
          \E i \in 1 .. j - 1 : log[i] = Row("request", log[j].of, "auto")

\* Every title that is not the user's own, and every request for one, is about a
\* prompt that is in the log before it; a command's is about the first of all.
TitlesAreOfPrompts ==
    \A j \in DOMAIN log : log[j].kind \in {"fallback", "request", "title"} =>
        /\ log[j].of \in 1 .. j - 1 /\ log[log[j].of].kind = "prompt"
        /\ log[j].by = "command" =>
              \A i \in 1 .. log[j].of - 1 : log[i].kind # "prompt"
=============================================================================
