----------------------------- MODULE Playground -----------------------------
(***************************************************************************)
(* The chat playground of the web client                                   *)
(* (src/web/default/src/features/playground): the message list, the event  *)
(* streams and plain requests that fill it, the controls of the page, and  *)
(* the copy of the list kept in localStorage.                              *)
(*                                                                         *)
(* Every callback (an event of a stream, the answer to a request, a click) *)
(* is one action.  React applies a click's updates and renders before the  *)
(* next event; updates made by network callbacks are rendered later, by    *)
(* the action Render.  Until then the handlers of the page still close     *)
(* over the list and the isGenerating flag of the last render (rendered).  *)
(*                                                                         *)
(* Text is a sequence of tokens: plain text, a <think> or </think> tag,    *)
(* one half of such a tag, an error message, or text the user typed into   *)
(* the edit box.                                                           *)
(***************************************************************************)
EXTENDS Integers, Sequences, FiniteSets, SequencesExt

CONSTANTS NumRequests, \* a bound: the generations started
          MaxChunks,   \* a bound: the chunks each stream delivers
          ChunkTexts,  \* the texts of the chunks of a stream
          StreamModes, \* the values config.stream may be loaded with
          Answers      \* the answers to plain requests

ASSUME NumRequestsAssumption == NumRequests \in Nat
ASSUME StreamModesAssumption == StreamModes \subseteq BOOLEAN
VARIABLES stream,    \* config.stream; no control of the page changes it
          messages,  \* the message list with all queued updates applied
          rendered,  \* what the last render handed to the handlers
          storage,   \* localStorage
          source,    \* sseSourceRef.current
          complete,  \* isStreamCompleteRef.current
          conn,      \* the connection of each generation
          editing,   \* editingMessageKey
          received,  \* history: what each generation delivered
          raced      \* history: a control the guards do not cover was used
                     \* while a generation was running or unrendered, or
                     \* after one that was dropped without an end

vars == <<stream, messages, rendered, storage, source, complete, conn, editing,
          received, raced>>

Requests == 1 .. NumRequests

ASSUME MaxChunksAssumption == MaxChunks \in [Requests -> Nat]

NoSource == 0

\* A chunk may end within a tag: "<thi" and "</thi" stand for what has come of it,
\* "nk>" for the rest.
Sent == {"text", "<think>", "</think>", "<thi", "</thi", "nk>"}
Token == Sent \cup {"error", "edit"}

Half == {"<thi", "</thi"}
Mended(half) == IF half = "<thi" THEN "<think>" ELSE "</think>"

\* A text is written with whole tags.
Whole(s) == \A i \in 2 .. Len(s) : ~(s[i - 1] \in Half /\ s[i] = "nk>")

ASSUME TextsAssumption ==
    /\ ChunkTexts \subseteq Seq(Sent)
    /\ Answers \subseteq [content: Seq(Sent), reasoning: Seq(Sent)]
    /\ \A s \in ChunkTexts : Whole(s)
    /\ \A a \in Answers : Whole(a.content) /\ Whole(a.reasoning)

Status == {"none", "loading", "streaming", "complete", "error"}

\* key and from identify a message: generation r makes the assistant message
\* r and, when the user sent something new, the user message r.
Message == [key: Requests, from: {"user", "assistant"}, status: Status,
            content: Seq(Token), reasoning: Seq(Token),
            isReasoningStreaming: BOOLEAN]

\* unsent, an open stream, a plain request under way, closed or answered,
\* ended by the server without [DONE] or without choices, an open stream of a
\* page that was left, lost by a reload before the list that was saved shows
\* its end.
Conn == {"unsent", "open", "pending", "closed", "truncated", "left", "gone"}

\* What a generation delivered: how many chunks, and the two texts they carried.
Delivered == [chunks: Nat, content: Seq(Sent), reasoning: Seq(Sent)]

TypeOK ==
    /\ stream \in StreamModes
    /\ messages \in Seq(Message)
    /\ rendered \in [messages: Seq(Message), isGenerating: BOOLEAN]
    /\ storage \in Seq(Message)
    /\ source \in Requests \cup {NoSource}
    /\ complete \in BOOLEAN
    /\ conn \in [Requests -> Conn]
    /\ editing \in SUBSET [key: Requests, from: {"user", "assistant"}]
    /\ received \in [Requests -> Delivered]
    /\ raced \in BOOLEAN

-----------------------------------------------------------------------------
(* lib/message-utils.ts *)

\* The concatenation of two strings: a tag that was cut becomes whole.
Join(s, t) ==
    IF s # <<>> /\ t # <<>> /\ Last(s) \in Half /\ Head(t) = "nk>"
    THEN Front(s) \o <<Mended(Last(s))>> \o Tail(t)
    ELSE s \o t

\* One pass over the text, as the loop of parseThinkTags makes it: a <think>
\* opens a reasoning part, the next </think> closes it, an unclosed part runs
\* to the end.
ScanToken(acc, t) ==
    IF acc.hasUnclosedTag
    THEN IF t = "</think>" THEN [acc EXCEPT !.hasUnclosedTag = FALSE]
                           ELSE [acc EXCEPT !.reasoning = Append(@, t)]
    ELSE IF t = "<think>" THEN [acc EXCEPT !.hasUnclosedTag = TRUE]
                          ELSE [acc EXCEPT !.visibleContent = Append(@, t)]

parseThinkTags(content) ==
    FoldLeft(ScanToken,
             [visibleContent |-> <<>>, reasoning |-> <<>>,
              hasUnclosedTag |-> FALSE],
             content)

createUserMessage(r) ==
    [key |-> r, from |-> "user", status |-> "none", content |-> <<"text">>,
     reasoning |-> <<>>, isReasoningStreaming |-> FALSE]

createLoadingAssistantMessage(r) ==
    [key |-> r, from |-> "assistant", status |-> "loading", content |-> <<>>,
     reasoning |-> <<>>, isReasoningStreaming |-> FALSE]

\* The list with its last message replaced by `updated', what the updater makes
\* of it, when that is an assistant message.
updateLastAssistantMessage(list, updated) ==
    IF list # <<>> /\ Last(list).from = "assistant"
    THEN ReplaceAt(list, Len(list), updated)
    ELSE list

FirstNonEmpty(s, t) == IF s # <<>> THEN s ELSE t

\* Mutant of processStreamingContent: only the new chunk is parsed.
processStreamingChunk(m, chunk) ==
    LET parsed == parseThinkTags(chunk)
    IN  [m EXCEPT !.content = Join(@, chunk),
                  !.reasoning = FirstNonEmpty(parsed.reasoning, @),
                  !.isReasoningStreaming = parsed.hasUnclosedTag]

processStreamingContent(m, chunk) ==
    LET full   == Join(m.content, chunk)
        parsed == parseThinkTags(full)
    IN  [m EXCEPT !.content = full,
                  !.reasoning = FirstNonEmpty(parsed.reasoning, @),
                  !.isReasoningStreaming = parsed.hasUnclosedTag]

finalizeMessage(m, apiReasoning) ==
    LET parsed == parseThinkTags(m.content)
    IN  [m EXCEPT !.content = parsed.visibleContent,
                  !.reasoning = FirstNonEmpty(apiReasoning,
                                    FirstNonEmpty(@, parsed.reasoning)),
                  !.isReasoningStreaming = FALSE]

updateAssistantMessageWithError(list) ==
    updateLastAssistantMessage(list,
        [Last(list) EXCEPT !.content = <<"error">>, !.status = "error",
                           !.isReasoningStreaming = FALSE])

Unsettled(m) == m.from = "assistant" /\ m.status \in {"loading", "streaming"}

\* Mutant of sanitizeMessagesOnLoad: a message that has begun to show is taken
\* as finished.
sanitizeLoadingOnly(list) ==
    LET target == SelectLastInSeq(list, LAMBDA m : m.status = "loading")
        done   == finalizeMessage(list[target], <<>>)
    IN  IF target = 0 THEN list
        ELSE ReplaceAt(list, target,
                       [done EXCEPT !.content = <<"error">>, !.status = "error"])

\* The last unsettled message of the stored list, and no other, is finalized.
sanitizeMessagesOnLoad(list) ==
    LET target == SelectLastInSeq(list, Unsettled)
        done   == finalizeMessage(list[target], <<>>)
    IN  IF target = 0 THEN list
        ELSE ReplaceAt(list, target,
                 IF done.content # <<>> \/ done.reasoning # <<>>
                 THEN [done EXCEPT !.status = "complete"]
                 ELSE [done EXCEPT !.content = <<"error">>, !.status = "error"])

-----------------------------------------------------------------------------
(* hooks/use-chat-handler.ts: the updates the callbacks of a generation make *)

\* handleStreamUpdate
StreamUpdate(m, type, chunk) ==
    IF m.status = "error" THEN m
    ELSE IF type = "reasoning"
    THEN [m EXCEPT !.reasoning = Join(@, chunk),
                   !.isReasoningStreaming = TRUE, !.status = "streaming"]
    ELSE [processStreamingContent(m, chunk) EXCEPT !.status = "streaming"]

\* handleStreamComplete
StreamComplete(m) ==
    IF m.status \in {"complete", "error"} THEN m
    ELSE [finalizeMessage(m, <<>>) EXCEPT !.status = "complete"]

\* Mutant of StopMessage: a status of its own.
StopMessageStopped(m) ==
    IF m.status \in {"loading", "streaming"}
    THEN [finalizeMessage(m, <<>>) EXCEPT !.status = "stopped"]
    ELSE m

\* The update of stopGeneration.
StopMessage(m) ==
    IF m.status \in {"loading", "streaming"}
    THEN [finalizeMessage(m, <<>>) EXCEPT !.status = "complete"]
    ELSE m

\* The update of sendNonStreamingChat: whatever the last message is.
AnswerMessage(m, answer) ==
    [finalizeMessage([m EXCEPT !.content = answer.content], answer.reasoning) EXCEPT
        !.status = "complete"]

-----------------------------------------------------------------------------
(* Steps shared by the actions *)

\* A generation is running, or its last updates are not on the page yet.
Busy == \/ source # NoSource
        \/ \E r \in Requests : conn[r] \in {"open", "pending", "truncated"}
        \/ rendered.messages # messages

\* A click replaces the list and is rendered (and saved) before anything else.
ShowAndSave(list, gen) ==
    /\ messages' = list
    /\ storage' = list
    /\ rendered' = [messages |-> list, isGenerating |-> gen]

\* An update queued by a callback of the network.
Queue(list) == messages' = list /\ UNCHANGED <<rendered, storage>>

Fresh(r) == /\ conn[r] = "unsent"
            /\ \A q \in Requests : q < r => conn[q] # "unsent"

\* sendChat after updateMessages(list), and sendStreamRequest: a source is
\* made and becomes the current one; the one before it is not closed.  If
\* source.stream() throws the message is failed at once.
SendChat(r, list) ==
    \/ /\ stream
       /\ source' = r
       /\ complete' = FALSE
       /\ conn' = [conn EXCEPT ![r] = "open"]
       /\ ShowAndSave(list, TRUE)
    \/ /\ stream
       /\ source' = NoSource
       /\ complete' = FALSE
       /\ conn' = [conn EXCEPT ![r] = "closed"]
       /\ ShowAndSave(updateAssistantMessageWithError(list), FALSE)
    \/ /\ ~stream
       /\ conn' = [conn EXCEPT ![r] = "pending"]
       /\ ShowAndSave(list, FALSE)
       /\ UNCHANGED <<source, complete>>

\* Mutant of Guarded: the guard is forgotten.
GuardedNever == raced' = (raced \/ (~stream /\ Busy))

\* guardAction and the disabled controls: nothing while isGenerating, which
\* is the value of the last render and never true without streaming.
Guarded == /\ ~rendered.isGenerating
           /\ raced' = (raced \/ (~stream /\ Busy))

Unguarded == raced' = (raced \/ Busy)

\* PlaygroundChat shows the actions of a failed message, and of one whose
\* text is on display.
ActionsShown(m) ==
    \/ m.status = "error"
    \/ m.content # <<>> /\ (m.from = "user" \/ ~m.isReasoningStreaming)

Key(m) == [key |-> m.key, from |-> m.from]

-----------------------------------------------------------------------------
(* The controls of the page (index.tsx, components/) *)

\* handleSendMessage from the text box, which is disabled while generating.
HandleSendMessage(r) ==
    /\ Fresh(r)
    /\ Guarded
    /\ SendChat(r, rendered.messages
                     \o <<createUserMessage(r), createLoadingAssistantMessage(r)>>)
    /\ UNCHANGED <<stream, editing, received>>

\* handleSuggestionClick: the suggestions are never disabled.
HandleSuggestionClick(r) ==
    /\ Fresh(r)
    /\ Unguarded
    /\ SendChat(r, rendered.messages
                     \o <<createUserMessage(r), createLoadingAssistantMessage(r)>>)
    /\ UNCHANGED <<stream, editing, received>>

\* handleRegenerateMessage: the message and all after it are replaced.
HandleRegenerateMessage(r, i) ==
    /\ Fresh(r)
    /\ Guarded
    /\ rendered.messages[i].from = "assistant"
    /\ ActionsShown(rendered.messages[i])
    /\ rendered.messages[i].status \notin {"loading", "streaming"}
    /\ SendChat(r, Append(SubSeq(rendered.messages, 1, i - 1),
                          createLoadingAssistantMessage(r)))
    /\ UNCHANGED <<stream, editing, received>>

\* handleEditMessage opens the edit box of a message.
HandleEditMessage(i) ==
    /\ ~rendered.isGenerating
    /\ ActionsShown(rendered.messages[i])
    /\ rendered.messages[i].content # <<>>
    /\ editing' = {Key(rendered.messages[i])}
    /\ UNCHANGED <<stream, messages, rendered, storage, source, complete, conn,
                   received, raced>>

\* handleEditOpenChange(false)
HandleEditCancel ==
    /\ editing # {}
    /\ editing' = {}
    /\ UNCHANGED <<stream, messages, rendered, storage, source, complete, conn,
                   received, raced>>

Edited(list, i) == [list EXCEPT ![i].content = <<"edit">>]

\* applyEdit(text, false): Save, which no guard covers.
ApplyEditSave(i) ==
    /\ editing = {Key(rendered.messages[i])}
    /\ editing' = {}
    /\ Unguarded
    /\ ShowAndSave(Edited(rendered.messages, i), source # NoSource)
    /\ UNCHANGED <<stream, source, complete, conn, received>>

\* applyEdit(text, true): Save & Submit of a user message.
ApplyEditSubmit(r, i) ==
    /\ Fresh(r)
    /\ rendered.messages[i].from = "user"
    /\ editing = {Key(rendered.messages[i])}
    /\ editing' = {}
    /\ Unguarded
    /\ SendChat(r, Append(SubSeq(Edited(rendered.messages, i), 1, i),
                          createLoadingAssistantMessage(r)))
    /\ UNCHANGED <<stream, received>>

\* handleDeleteMessage
HandleDeleteMessage(i) ==
    /\ Guarded
    /\ ActionsShown(rendered.messages[i])
    /\ ShowAndSave(RemoveAt(rendered.messages, i), source # NoSource)
    /\ UNCHANGED <<stream, source, complete, conn, editing, received>>

\* stopGeneration: the button is there while isGenerating is rendered.
StopGeneration ==
    /\ rendered.isGenerating
    /\ conn' = [r \in Requests |-> IF r = source THEN "closed" ELSE conn[r]]
    /\ source' = NoSource
    /\ ShowAndSave(updateLastAssistantMessage(messages,
                       StopMessage(Last(messages))), FALSE)
    /\ UNCHANGED <<stream, complete, editing, received, raced>>

-----------------------------------------------------------------------------
(* The events of a stream (hooks/use-stream-request.ts) *)

\* History: one more chunk of a generation.
Deliver(own, type, chunk) ==
    [own EXCEPT !.chunks = @ + 1, ![type] = Join(@, chunk)]

\* A message event with a delta.
OnChunk(r, type, chunk) ==
    /\ conn[r] = "open"
    /\ received[r].chunks < MaxChunks[r]
    /\ Queue(updateLastAssistantMessage(messages,
                 StreamUpdate(Last(messages), type, chunk)))
    /\ received' = [received EXCEPT ![r] = Deliver(@, type, chunk)]
    /\ UNCHANGED <<stream, source, complete, conn, editing, raced>>

\* Mutant of CloseSource: the reference is kept.
CloseSourceOnly(r) == /\ conn' = [conn EXCEPT ![r] = "closed"]
                      /\ source' = source

\* closeSource closes the stream of the callback, but clears the reference
\* to whichever stream is the current one.
CloseSource(r) == /\ conn' = [conn EXCEPT ![r] = "closed"]
                  /\ source' = NoSource

\* The [DONE] event.
OnDone(r) ==
    /\ conn[r] = "open"
    /\ complete' = TRUE
    /\ CloseSource(r)
    /\ Queue(updateLastAssistantMessage(messages,
                 StreamComplete(Last(messages))))
    /\ UNCHANGED <<stream, editing, received, raced>>

\* handleError: nothing at all once some stream has completed.
HandleError(r) ==
    \/ /\ ~complete
       /\ Queue(updateAssistantMessageWithError(messages))
       /\ CloseSource(r)
       /\ UNCHANGED complete
    \/ /\ complete
       /\ UNCHANGED <<messages, rendered, storage, source, complete, conn>>

\* A chunk that is not JSON: handleError, the stream goes on if it did nothing.
OnParseError(r) ==
    /\ conn[r] = "open"
    /\ HandleError(r)
    /\ UNCHANGED <<stream, editing, received, raced>>

\* An error event, or a status other than 200: the connection is over.
OnError(r) ==
    /\ conn[r] = "open"
    /\ \/ ~complete /\ HandleError(r)
       \/ /\ complete
          /\ conn' = [conn EXCEPT ![r] = "closed"]
          /\ UNCHANGED <<messages, rendered, storage, source, complete>>
    /\ UNCHANGED <<stream, editing, received, raced>>

\* The server ends a 200 response without [DONE]: no listener does anything.
OnTruncated(r) ==
    /\ conn[r] = "open"
    /\ conn' = [conn EXCEPT ![r] = "truncated"]
    /\ UNCHANGED <<stream, messages, rendered, storage, source, complete,
                   editing, received, raced>>

-----------------------------------------------------------------------------
(* The answers to plain requests (sendNonStreamingChat) *)

OnAnswer(r, answer) ==
    /\ conn[r] = "pending"
    /\ conn' = [conn EXCEPT ![r] = "closed"]
    /\ received' = [received EXCEPT ![r] =
                       [chunks |-> 1, content |-> answer.content,
                        reasoning |-> answer.reasoning]]
    /\ Queue(updateLastAssistantMessage(messages,
                 AnswerMessage(Last(messages), answer)))
    /\ UNCHANGED <<stream, source, complete, editing, raced>>

\* An answer without choices is dropped.
OnNoChoice(r) ==
    /\ conn[r] = "pending"
    /\ conn' = [conn EXCEPT ![r] = "truncated"]
    /\ UNCHANGED <<stream, messages, rendered, storage, source, complete,
                   editing, received, raced>>

OnRequestError(r) ==
    /\ conn[r] = "pending"
    /\ conn' = [conn EXCEPT ![r] = "closed"]
    /\ Queue(updateAssistantMessageWithError(messages))
    /\ UNCHANGED <<stream, source, complete, editing, received, raced>>

-----------------------------------------------------------------------------
\* React runs the queued updates, which save the list, and renders the page.
Render ==
    /\ rendered # [messages |-> messages, isGenerating |-> source # NoSource]
    /\ ShowAndSave(messages, source # NoSource)
    /\ UNCHANGED <<stream, source, complete, conn, editing, received, raced>>

\* What the page shows of generation r is over when the page is mounted anew.
Interrupted(r) ==
    \/ conn[r] \in {"pending", "truncated"}
    \/ \E m \in Range(storage) : Unsettled(m) /\ m.key = r

\* The page is mounted: all but localStorage is new.  loadMessages saves what it
\* sanitized.
Mount ==
    /\ ShowAndSave(sanitizeMessagesOnLoad(storage), FALSE)
    /\ source' = NoSource
    /\ complete' = FALSE
    /\ editing' = {}
    /\ UNCHANGED <<stream, received, raced>>

\* The page is reloaded, which ends every connection.
Reload ==
    /\ Mount
    /\ conn' = [r \in Requests |->
                   IF conn[r] \in {"open", "left"} \/ Interrupted(r) THEN "gone"
                   ELSE conn[r]]

\* The page is left for another one and opened again.  No cleanup closes the
\* stream: it goes on, and what its callbacks do is lost on the old page.
Leave ==
    /\ Mount
    /\ conn' = [r \in Requests |->
                   IF conn[r] \in {"open", "left"} THEN "left"
                   ELSE IF Interrupted(r) THEN "gone" ELSE conn[r]]

\* The end of a stream whose page was left, with the refs of that page.
LeftEnds(r) ==
    /\ conn[r] = "left"
    /\ conn' = [conn EXCEPT ![r] = "gone"]
    /\ UNCHANGED <<stream, messages, rendered, storage, source, complete,
                   editing, received, raced>>

Init ==
    /\ stream \in StreamModes
    /\ messages = <<>>
    /\ rendered = [messages |-> <<>>, isGenerating |-> FALSE]
    /\ storage = <<>>
    /\ source = NoSource
    /\ complete = FALSE
    /\ conn = [r \in Requests |-> "unsent"]
    /\ editing = {}
    /\ received = [r \in Requests |->
                      [chunks |-> 0, content |-> <<>>, reasoning |-> <<>>]]
    /\ raced = FALSE

Send(r) ==
    \/ HandleSendMessage(r)
    \/ HandleSuggestionClick(r)
    \/ \E i \in DOMAIN rendered.messages :
          HandleRegenerateMessage(r, i) \/ ApplyEditSubmit(r, i)

EditOrDelete ==
    \/ \E i \in DOMAIN rendered.messages :
          HandleEditMessage(i) \/ ApplyEditSave(i) \/ HandleDeleteMessage(i)
    \/ HandleEditCancel

\* The ways a generation ends.
Ends(r) == OnDone(r) \/ OnError(r) \/ OnTruncated(r)
             \/ (\E answer \in Answers : OnAnswer(r, answer))
             \/ OnNoChoice(r) \/ OnRequestError(r)

Next ==
    \/ \E r \in Requests :
          \/ Send(r)
          \/ \E chunk \in ChunkTexts : OnChunk(r, "content", chunk)
          \/ OnChunk(r, "reasoning", <<"text">>)
          \/ OnParseError(r)
          \/ Ends(r)
          \/ LeftEnds(r)
    \/ EditOrDelete
    \/ StopGeneration
    \/ Render
    \/ Reload
    \/ Leave

Spec == Init /\ [][Next]_vars

\* Connections end and React renders; the user owes nothing.
FairSpec == /\ Spec
            /\ WF_vars(rendered.messages # messages /\ Render)
            /\ \A r \in Requests : WF_vars(Ends(r))
-----------------------------------------------------------------------------
(* Properties *)

\* While no uncovered control was used during a generation, the guards keep
\* generations apart: a stream the page opened is the one stopStream would close,
\* and the page knows that it is generating, although handlers read a flag that
\* is as old as the last render (use-message-action-guard.ts).  The exception is
\* a stream opened before the page was left: useStreamRequest closes nothing on
\* unmount, so it runs on and no control of the new page reaches it.
OneStream ==
    ~raced => \A r \in Requests :
                 conn[r] = "open" => source = r /\ rendered.isGenerating

\* The same with a stored list: reloading at any moment, between a chunk and
\* its save too, leaves no message that waits for a stream that is gone,
\* although sanitizeMessagesOnLoad finalizes a single message.
ReloadSettles ==
    ~raced => \A m \in Range(sanitizeMessagesOnLoad(storage)) : ~Unsettled(m)

\* Reference definition of parseThinkTags by positions: a token is reasoning
\* when a <think> stands before it and no </think> in between.
InThink(s, i) == \E j \in 1 .. i - 1 :
                    s[j] = "<think>" /\ \A k \in j + 1 .. i - 1 : s[k] # "</think>"

\* The k-th of a set of positions, and the tokens at its positions in order.
Nth(idx, k) == CHOOSE i \in idx : Cardinality({j \in idx : j <= i}) = k

Pick(s, idx) == [k \in 1 .. Cardinality(idx) |-> s[Nth(idx, k)]]

RefVisible(s) ==
    Pick(s, {i \in DOMAIN s : ~InThink(s, i) /\ s[i] # "<think>"})

RefReasoning(s) ==
    Pick(s, {i \in DOMAIN s : InThink(s, i) /\ s[i] # "</think>"})

\* A finished message shows what its own generation delivered and nothing
\* else: no chunk of another stream, none lost to a handler that replaced the
\* list by the one it had rendered, think parts separated from the text
\* wherever the chunks were cut, within a tag too, and wherever the user stopped.
\* A generation that reasons both ways shows some of it: nothing is claimed.
\* The exception is a think part that is empty: processStreamingContent keeps
\* the last reasoning that was not, half a closing tag if the chunk was cut there.
ShowsWhatArrived ==
    ~raced => \A m \in Range(messages) :
        (m.from = "assistant" /\ m.status = "complete"
            /\ m.content # <<"edit">> /\ conn[m.key] \notin {"left", "gone"}) =>
        LET own     == received[m.key]
            thought == RefReasoning(own.content)
        IN  /\ m.content = RefVisible(own.content)
            /\ own.reasoning = <<>> =>
                  m.reasoning \in IF thought # <<>> THEN {thought}
                                  ELSE {<<>>, <<"</thi">>}
            /\ "<think>" \notin Range(own.content) => m.reasoning = own.reasoning

\* A generation ends on the page: its message settles and the page leaves the
\* generating state, by [DONE], an error, Stop, a reload or as the page is left
\* (on the page, not at the server).  The exceptions
\* are a response cut off without [DONE] (or without choices) and races.
GenerationEnds ==
    \A r \in Requests :
        conn[r] \in {"open", "pending"} ~>
            \/ raced
            \/ conn[r] = "truncated"
            \/ /\ \A m \in Range(rendered.messages) : m.key = r => ~Unsettled(m)
               /\ rendered.isGenerating => source # r
=============================================================================
