--------------------------- MODULE OutputCapture ---------------------------
(***************************************************************************)
(* Where the bytes of one output stream go (tools/process): the tail that  *)
(* the result shows (capture.rs), the file that holds all of them once the *)
(* tail is full (spill.rs), and the window from which a background job's   *)
(* reader takes what is new (incremental.rs).  Byte number n of the stream *)
(* is n, so that every piece of it is a sequence of consecutive numbers.   *)
(* UserSideProofs proves what is stated here, for streams of any length.   *)
(***************************************************************************)
EXTENDS Naturals, Sequences, SequencesExt

CONSTANT TailLimit   \* RETAINED_TAIL_BYTES, the limit of the tail and of the window

VARIABLES
    total,      \* SpillCapture::captured_bytes, StreamTail::total
    tail,       \* TailCapture::bytes
    truncated,  \* TailCapture::truncated
    spill,      \* SpillState
    noDirectory,\* spill_disabled: the directory could not be made
    file,       \* what has been written to the spill file
    path,       \* the locator has been published
    window,     \* StreamTail::bytes
    state,      \* the stream: open, closed (at its end or early), finished
    incomplete, \* OutputState::incomplete
    cursor,     \* ProcessOutputCursor
    returned,   \* history: all that reads have returned
    missed,     \* history: bytes that reads have skipped, each announced
    shown       \* history: a read has named the file after one that skipped bytes

vars == <<total, tail, truncated, spill, noDirectory, file, path, window, state, incomplete,
          cursor, returned, missed, shown>>

Bytes(a, b) == [i \in 1 .. b + 1 - a |-> a + i - 1]
Suffix(s, n) == IF Len(s) <= n THEN s ELSE SubSeq(s, Len(s) - n + 1, Len(s))

Init ==
    /\ total = 0
    /\ tail = <<>> /\ truncated = FALSE
    /\ spill = "dormant" /\ noDirectory = FALSE /\ file = <<>> /\ path = FALSE
    /\ window = <<>>
    /\ state = "open" /\ incomplete = FALSE
    /\ cursor = [offset |-> 0, incompleteTold |-> FALSE, pendingSpill |-> FALSE]
    /\ returned = <<>> /\ missed = {} /\ shown = TRUE

\* TailCapture::push.
PushTail(t, chunk) == Suffix(t \o chunk, TailLimit)
TailCuts(t, chunk) == Len(t) + Len(chunk) > TailLimit

\* StreamTail::push.
PushWindow(w, chunk) == Suffix(w \o chunk, TailLimit)

OpensSpill(n) == spill = "dormant" /\ total + n > TailLimit
\* SpillCapture::push, for a capture that is to have a file from this chunk on:
\* the file begins with what the tail still holds.
Written(n) == IF spill = "active" THEN file \o Bytes(total + 1, total + n)
              ELSE tail \o Bytes(total + 1, total + n)

\* handle_pipe_result for n bytes.  ok: the directory, the file and the write
\* succeed.  The window is served before the file.
Push(n, ok) ==
    /\ state = "open"
    /\ LET chunk == Bytes(total + 1, total + n)
           wants == OpensSpill(n) \/ spill = "active"
           works == ok /\ ~noDirectory IN
       /\ ~wants => ok
       /\ window' = PushWindow(window, chunk)
       /\ spill' = IF ~wants THEN spill ELSE IF works THEN "active" ELSE "disabled"
       /\ file' = IF wants /\ works THEN Written(n) ELSE file
       /\ tail' = PushTail(tail, chunk)
       /\ truncated' = (truncated \/ TailCuts(tail, chunk))
    /\ total' = total + n
    /\ UNCHANGED <<noDirectory, path, state, incomplete, cursor, returned, missed, shown>>

\* The spill directory cannot be made: no stream of the command gets a file.
DirectoryFails ==
    /\ state = "open"
    /\ spill = "dormant"
    /\ ~noDirectory
    /\ noDirectory' = TRUE
    /\ UNCHANGED <<total, tail, truncated, spill, file, path, window, state, incomplete, cursor,
                   returned, missed, shown>>

\* The stream reaches its end, or is closed before it with a flag of the report.
CloseStream(early) ==
    /\ state = "open"
    /\ state' = "closed"
    /\ truncated' = (truncated \/ early)
    /\ incomplete' = early
    /\ UNCHANGED <<total, tail, spill, noDirectory, file, path, window, cursor, returned, missed,
                   shown>>

\* SpillCapture::finish, then ProcessOutputTap::finish.
Finish(flushed) ==
    /\ state = "closed"
    /\ state' = "finished"
    /\ path' = (spill = "active" /\ flushed)
    /\ spill' = "disabled"
    /\ UNCHANGED <<total, tail, truncated, noDirectory, file, window, incomplete, cursor, returned,
                   missed, shown>>

\* ProcessOutputTap::read.
WindowStart == total - Len(window)
Lossy == cursor.offset < WindowStart
Delta == IF Lossy THEN window ELSE SubSeq(window, cursor.offset - WindowStart + 1, Len(window))
Done == state = "finished"
NewSpill == Done /\ cursor.pendingSpill /\ path
NewlyIncomplete == Done /\ incomplete /\ ~cursor.incompleteTold
Announces == Lossy \/ NewSpill \/ NewlyIncomplete

NextCursor ==
    [offset |-> total,
     incompleteTold |-> cursor.incompleteTold \/ NewlyIncomplete,
     pendingSpill |-> ~Done /\ (cursor.pendingSpill \/ (Lossy /\ ~path))]

Read ==
    /\ cursor' = NextCursor
    /\ returned' = returned \o Delta
    /\ missed' = missed \cup (IF Announces /\ Lossy THEN cursor.offset + 1 .. WindowStart ELSE {})
    /\ shown' = IF Announces /\ path THEN TRUE ELSE shown /\ ~Lossy
    /\ UNCHANGED <<total, tail, truncated, spill, noDirectory, file, path, window, state,
                   incomplete>>

Next ==
    \/ \E n \in Nat \ {0}, ok \in BOOLEAN : Push(n, ok)
    \/ DirectoryFails
    \/ \E b \in BOOLEAN : CloseStream(b) \/ Finish(b)
    \/ Read

Spec == Init /\ [][Next]_vars

-----------------------------------------------------------------------------
\* The tail is the end of the stream, and says so when something is missing
\* before or behind it; a file that is named holds every byte that was captured.
CaptureIsExact ==
    /\ tail = Suffix(Bytes(1, total), TailLimit)
    /\ total > TailLimit \/ incomplete => truncated
    /\ path => file = Bytes(1, total)

\* Every byte up to the cursor has been returned, once and in order, or skipped by
\* a read that announced a loss; and a reader that has seen the end of the job
\* after a loss has been told of the file, when there is one.
ReadsAreExact ==
    /\ \A i, j \in DOMAIN returned : i < j => returned[i] < returned[j]
    /\ ToSet(returned) \cup missed = 1 .. cursor.offset
    /\ ToSet(returned) \cap missed = {}
    /\ Done /\ path /\ ~cursor.pendingSpill => shown
=============================================================================
