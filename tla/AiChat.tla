------------------------------- MODULE AiChat -------------------------------
(***************************************************************************)
(* The chat: the app's AiProvider (ai_provider.dart), the gateway's Chat   *)
(* handler with the rows it saves (modules/ai/handler.go), and the model   *)
(* service NIM behind it.                                                  *)
(*                                                                         *)
(* A question is named by its number, a chunk of its answer by the pair of *)
(* the question and the chunk's number.  The ghost fields "of" of messages *)
(* say which question they belong to.  As in EventsHub the ResponseWriter  *)
(* is net/http's own; Gateway says what the middleware makes of it.        *)
(***************************************************************************)
EXTENDS Naturals, Sequences, SequencesExt

CONSTANTS
    MaxQuestions,      \* bound on the questions that are asked
    MaxConversations,  \* bound on the conversations that are begun
    MaxChunks,         \* bound on the chunks of an answer
    MaxCrashes         \* bound on crashes of the gateway

ASSUME BoundsAssumption == /\ MaxQuestions \in Nat
                           /\ MaxConversations \in Nat
                           /\ MaxChunks \in Nat
                           /\ MaxCrashes \in Nat

Questions     == 1 .. MaxQuestions
Conversations == 1 .. MaxConversations
NoConversation == 0  \* conversationId is null

VARIABLES
    \* AiProvider.
    conversationId,
    messages,
    streamingBuffer,
    isStreaming,  \* "yes" or "no"
    reading,      \* questions whose response sendMessage awaits or reads
    \* The gateway.
    handler,      \* where Chat is with a question
    request,      \* the conversation and the history that a question was sent with
    received,     \* how many chunks fullResponse holds
    wire,         \* lines on their way to the app
    rows,         \* messages of a conversation, in the order of their ids
    conversations,\* rows of the table of that name
    todo,         \* rows that saveConversation has still to insert
    crashes,
    unsaved       \* history: questions with an answer that is not fully stored

app == <<conversationId, messages, streamingBuffer, isStreaming, reading>>
database == <<rows, conversations, todo, unsaved>>
vars == <<conversationId, messages, streamingBuffer, isStreaming, reading,
          handler, request, received, wire, rows, conversations, todo, crashes, unsaved>>

User(q) == [role |-> "user", of |-> q, content |-> <<>>]
Assistant(q, chunks) == [role |-> "assistant", of |-> q, content |-> chunks]

\* The first n chunks of the answer to q
Answer(q, n) == [i \in 1 .. n |-> <<q, i>>]

\* The lines "[DONE]" and {"error": ...}: the app finds no content in them.
NoContent == 0

Init ==
    /\ conversationId = NoConversation
    /\ messages = <<>>
    /\ streamingBuffer = <<>>
    /\ isStreaming = "no"
    /\ reading = {}
    /\ handler = [q \in Questions |-> "none"]
    /\ request = [q \in Questions |-> [conversation |-> NoConversation, messages |-> <<>>]]
    /\ received = [q \in Questions |-> 0]
    /\ wire = [q \in Questions |-> <<>>]
    /\ rows = [c \in Conversations |-> <<>>]
    /\ conversations = {}
    /\ todo = [q \in Questions |-> <<>>]
    /\ crashes = 0
    /\ unsaved = {}

-----------------------------------------------------------------------------
(***************************************************************************)
(* The app                                                                 *)
(***************************************************************************)
\* The ids that exist; a fresh one is none of them.
Ids == {conversationId} \cup {request[q].conversation : q \in Questions}

\* newConversation, when its answer arrives: a call changes nothing before
\* that and nothing when it fails, and may be made at any time.  The handler
\* only makes a fresh id.
NewConversation ==
    /\ \E c \in Conversations :
          /\ \A d \in Ids : d < c
          /\ conversationId' = c
    /\ messages' = <<>>
    /\ streamingBuffer' = <<>>
    /\ UNCHANGED <<isStreaming, reading, handler, request, received, wire, database, crashes>>

IsNext(q) == handler[q] = "none" /\ \A p \in 1 .. q - 1 : handler[p] # "none"

\* Mutant: a question may be sent while another is answered.
SendMessageAnytime(q) ==
    /\ IsNext(q)
    /\ messages' = Append(messages, User(q))
    /\ streamingBuffer' = <<>>
    /\ isStreaming' = "yes"
    /\ reading' = reading \cup {q}
    /\ request' = [request EXCEPT ![q] = [conversation |-> conversationId, messages |-> messages']]
    /\ handler' = [handler EXCEPT ![q] = "deciding"]
    /\ UNCHANGED <<conversationId, received, wire, database, crashes>>

\* Mutant: the buffer of an answer that failed is kept.
SendMessageKeepsBuffer(q) ==
    /\ isStreaming = "no"
    /\ IsNext(q)
    /\ messages' = Append(messages, User(q))
    /\ isStreaming' = "yes"
    /\ reading' = reading \cup {q}
    /\ request' = [request EXCEPT ![q] = [conversation |-> conversationId, messages |-> messages']]
    /\ handler' = [handler EXCEPT ![q] = "deciding"]
    /\ UNCHANGED <<conversationId, streamingBuffer, received, wire, database, crashes>>

\* sendMessage up to its post
SendMessage(q) ==
    /\ isStreaming = "no"
    /\ IsNext(q)
    /\ messages' = Append(messages, User(q))
    /\ streamingBuffer' = <<>>
    /\ isStreaming' = "yes"
    /\ reading' = reading \cup {q}
    /\ request' = [request EXCEPT ![q] = [conversation |-> conversationId, messages |-> messages']]
    /\ handler' = [handler EXCEPT ![q] = "deciding"]
    /\ UNCHANGED <<conversationId, received, wire, database, crashes>>

\* One turn of "await for"
ReadLine(q) ==
    /\ q \in reading
    /\ wire[q] # <<>>
    /\ wire' = [wire EXCEPT ![q] = Tail(@)]
    /\ streamingBuffer' = IF Head(wire[q]) = NoContent THEN streamingBuffer
                          ELSE Append(streamingBuffer, <<q, Head(wire[q])>>)
    /\ UNCHANGED <<conversationId, messages, isStreaming, reading,
                   handler, request, received, database, crashes>>

\* Mutant: the stream ends with "[DONE]".
AtDone(q) == handler[q] \in {"opening", "saving", "returned"} /\ wire[q] = <<>>

\* The stream ends when the handler returns.
AtEnd(q) == handler[q] = "returned" /\ wire[q] = <<>>

StreamEnds(q) ==
    /\ q \in reading
    /\ AtEnd(q)
    /\ messages' = Append(messages, Assistant(q, streamingBuffer))
    /\ streamingBuffer' = <<>>
    /\ isStreaming' = "no"
    /\ reading' = reading \ {q}
    /\ UNCHANGED <<conversationId, handler, request, received, wire, database, crashes>>

\* Mutant: isStreaming is reset only after an answer.
ThrowsStreaming(q) ==
    /\ q \in reading
    /\ ~AtEnd(q)
    /\ reading' = reading \ {q}
    /\ wire' = [wire EXCEPT ![q] = <<>>]
    /\ UNCHANGED <<conversationId, messages, streamingBuffer, isStreaming,
                   handler, request, received, database, crashes>>

\* An error status, a connection that breaks, or 60 seconds without data:
\* the handler does not learn of it.
Throws(q) ==
    /\ q \in reading
    /\ ~AtEnd(q)
    /\ isStreaming' = "no"
    /\ reading' = reading \ {q}
    /\ wire' = [wire EXCEPT ![q] = <<>>]
    /\ UNCHANGED <<conversationId, messages, streamingBuffer,
                   handler, request, received, database, crashes>>

-----------------------------------------------------------------------------
(***************************************************************************)
(* Chat                                                                    *)
(***************************************************************************)
Goto(q, from, to) ==
    /\ handler[q] = from
    /\ handler' = [handler EXCEPT ![q] = to]

\* A line for an app that is gone is written to no one.
Emit(q, line) == wire' = IF q \in reading THEN [wire EXCEPT ![q] = Append(@, line)] ELSE wire

\* 400 without a model; the app throws.
Refuse(q) ==
    /\ Goto(q, "deciding", "failed")
    /\ UNCHANGED <<app, request, received, wire, database, crashes>>

\* ChatStream returns an error: the answer is one line without content.
StreamFails(q) ==
    /\ Goto(q, "deciding", "returned")
    /\ Emit(q, NoContent)
    /\ unsaved' = unsaved \cup {q}
    /\ UNCHANGED <<app, request, received, rows, conversations, todo, crashes>>

StreamBegins(q) ==
    /\ Goto(q, "deciding", "relaying")
    /\ UNCHANGED <<app, request, received, wire, database, crashes>>

Relay(q) ==
    /\ handler[q] = "relaying"
    /\ received[q] < MaxChunks
    /\ received' = [received EXCEPT ![q] = @ + 1]
    /\ Emit(q, received[q] + 1)
    /\ UNCHANGED <<app, handler, request, database, crashes>>

\* NIM says "[DONE]", ends or breaks the stream: the scanner does not tell.
RelayEnds(q) ==
    /\ Goto(q, "relaying", IF request[q].conversation = NoConversation THEN "returned" ELSE "opening")
    /\ Emit(q, NoContent)
    /\ UNCHANGED <<app, request, received, database, crashes>>

\* saveConversation: INSERT OR IGNORE of the conversation.  When it fails
\* nothing is saved, and neither is it without a database.
OpenConversation(q) ==
    \/ /\ Goto(q, "opening", "saving")
       /\ conversations' = conversations \cup {request[q].conversation}
       /\ todo' = [todo EXCEPT ![q] =
                     Append(request[q].messages, Assistant(q, Answer(q, received[q])))]
       /\ UNCHANGED <<app, request, received, wire, rows, crashes, unsaved>>
    \/ /\ Goto(q, "opening", "returned")
       /\ unsaved' = unsaved \cup {q}
       /\ UNCHANGED <<app, request, received, wire, rows, conversations, todo, crashes>>

\* One INSERT per message of the history and one for the answer; a row that
\* cannot be inserted is passed over.
InsertMessage(q) ==
    /\ handler[q] = "saving"
    /\ todo[q] # <<>>
    /\ todo' = [todo EXCEPT ![q] = Tail(@)]
    /\ \/ /\ rows' = [rows EXCEPT ![request[q].conversation] = Append(@, Head(todo[q]))]
          /\ UNCHANGED unsaved
       \/ /\ unsaved' = unsaved \cup {q}
          /\ UNCHANGED rows
    /\ UNCHANGED <<app, handler, request, received, wire, conversations, crashes>>

Return(q) ==
    /\ todo[q] = <<>>
    /\ Goto(q, "saving", "returned")
    /\ UNCHANGED <<app, request, received, wire, database, crashes>>

\* The process ends and is started anew: the rows remain.
Crash ==
    /\ crashes < MaxCrashes
    /\ crashes' = crashes + 1
    /\ handler' = [q \in Questions |->
                     IF handler[q] \in {"none", "returned"} THEN handler[q] ELSE "failed"]
    /\ todo' = [q \in Questions |-> <<>>]
    /\ UNCHANGED <<app, request, received, wire, rows, conversations, unsaved>>

-----------------------------------------------------------------------------
Reads(q) == ReadLine(q) \/ StreamEnds(q) \/ Throws(q)

Chat(q) == \/ Refuse(q)
           \/ StreamFails(q)
           \/ StreamBegins(q)
           \/ Relay(q)
           \/ RelayEnds(q)
           \/ OpenConversation(q)
           \/ InsertMessage(q)
           \/ Return(q)

Next == \/ NewConversation
        \/ \E q \in Questions : SendMessage(q) \/ Reads(q) \/ Chat(q)
        \/ Crash

Spec == Init /\ [][Next]_vars

\* The app reads what has arrived, and its timer fires when nothing does.
\* NIM need not answer: the gateway's client has no timeout.
FairSpec == Spec /\ \A q \in Questions : WF_vars(Reads(q))

-----------------------------------------------------------------------------
(***************************************************************************)
(* Properties                                                              *)
(***************************************************************************)
Message ==
    [role : {"user", "assistant"}, of : Questions, content : Seq(Questions \X (1 .. MaxChunks))]

\* Every variable has its type.
TypeOK ==
    /\ conversationId \in {NoConversation} \cup Conversations
    /\ messages \in Seq(Message)
    /\ streamingBuffer \in Seq(Questions \X (1 .. MaxChunks))
    /\ isStreaming \in {"yes", "no"}
    /\ reading \subseteq Questions
    /\ handler \in [Questions -> {"none", "deciding", "relaying", "opening",
                                  "saving", "returned", "failed"}]
    /\ request \in [Questions -> [conversation : {NoConversation} \cup Conversations,
                                  messages : Seq(Message)]]
    /\ received \in [Questions -> 0 .. MaxChunks]
    /\ wire \in [Questions -> Seq({NoContent} \cup (1 .. MaxChunks))]
    /\ rows \in [Conversations -> Seq(Message)]
    /\ conversations \subseteq Conversations
    /\ todo \in [Questions -> Seq(Message)]
    /\ crashes \in 0 .. MaxCrashes
    /\ unsaved \subseteq Questions

\* The chunks of the answer to q after the first m and up to the n-th, and the
\* lines that carry them.
Chunks(q, m, n) == [i \in 1 .. n - m |-> <<q, m + i>>]
Lines(m, n) == [i \in 1 .. n - m |-> m + i]

\* The app streams exactly while it reads a response, and it reads one.
OneStream ==
    /\ isStreaming = "yes" <=> reading # {}
    /\ \A p, q \in reading : p = q

\* The app has read n chunks of the answer to q and shows the last of them:
\* all, unless a new conversation emptied the buffer.  What follows is on its
\* way.
ShowsUpTo(q, n) ==
    /\ \E m \in 0 .. n :
          /\ streamingBuffer = Chunks(q, m, n)
          /\ messages # <<>> => m = 0
    /\ \/ wire[q] = Lines(n, received[q])
       \/ /\ handler[q] \notin {"deciding", "relaying"}
          /\ wire[q] = Append(Lines(n, received[q]), NoContent)

\* The bubble of the answer under way shows chunks of one answer without a
\* gap, whatever streams were cut before.
BufferIsOneAnswer == \A q \in reading : \E n \in 0 .. received[q] : ShowsUpTo(q, n)

\* A question is the end of the history it was sent with, and that is what the
\* app shows until the answer has come or a new conversation has begun.
Asked ==
    /\ \A q \in Questions :
          IF handler[q] = "none"
            THEN q \notin reading /\ wire[q] = <<>> /\ received[q] = 0
            ELSE request[q].messages # <<>> /\ Last(request[q].messages) = User(q)
    /\ \A q \in reading :
          messages # <<>> => /\ messages = request[q].messages
                             /\ conversationId = request[q].conversation

\* What an exchange looks like in the end
Exchange(q) == Append(request[q].messages, Assistant(q, Answer(q, received[q])))

\* Only a question whose handler has returned has its answer among the
\* messages, and an answer at the end of a history ends its exchange.
Answered ==
    /\ \A i \in DOMAIN messages :
          messages[i].role = "assistant" => handler[messages[i].of] = "returned"
    /\ Len(messages) > 1 /\ Last(messages).role = "assistant" =>
          LET q == Last(messages).of IN
          /\ messages = Exchange(q)
          /\ conversationId = request[q].conversation

\* The rows s are among the rows t, in their order.
Within(s, t) ==
    \E f \in [DOMAIN s -> DOMAIN t] :
        /\ \A i \in DOMAIN s : t[f[i]] = s[i]
        /\ \A i, j \in DOMAIN s : i < j => f[i] < f[j]

\* The first n messages of an exchange are rows, the others still to do.
SavedUpTo(q, n) ==
    /\ todo[q] = SubSeq(Exchange(q), n + 1, Len(Exchange(q)))
    /\ Within(SubSeq(Exchange(q), 1, n), rows[request[q].conversation])

\* Of an exchange a beginning is stored until an insert fails.
Saved(q) ==
    /\ handler[q] \in {"opening", "saving"} => request[q].conversation # NoConversation
    /\ handler[q] = "saving" => request[q].conversation \in conversations
    /\ handler[q] # "saving" => todo[q] = <<>>
    /\ /\ handler[q] \in {"saving", "returned"}
       /\ request[q].conversation # NoConversation
       /\ q \notin unsaved
       => \E n \in 0 .. Len(Exchange(q)) : SavedUpTo(q, n)

\* A conversation is opened before rows are inserted.
SavedSoFar ==
    /\ \A c \in Conversations : rows[c] # <<>> => c \in conversations
    /\ \A q \in Questions : Saved(q)

\* The app, its streams and the rows agree.
Inv ==
    /\ TypeOK
    /\ OneStream
    /\ BufferIsOneAnswer
    /\ Asked
    /\ Answered
    /\ SavedSoFar

\* An answer stands under its own question and is all that the gateway
\* received; only an answer that a new conversation overtook stands first,
\* and of it the chunks that came after.
AnswersInPlace ==
    \A i \in DOMAIN messages :
        LET answer == messages[i]
            all    == Answer(answer.of, received[answer.of])
        IN  answer.role = "assistant" =>
                IF i = 1 THEN IsSuffix(answer.content, all)
                ELSE /\ messages[i - 1] = User(answer.of)
                     /\ answer.content = all

\* What the app shows when an answer has come is in the database, in order:
\* the stream ends after the save.  Rows of a handler whose app went away may
\* lie between.  Not so when NIM or the database refused, and for an answer
\* that a new conversation overtook.
HistoryStored ==
    /\ Len(messages) > 1
    /\ Last(messages).role = "assistant"
    /\ Last(messages).of \notin unsaved
    /\ conversationId # NoConversation
    => Within(messages, rows[conversationId])

\* The app can always ask again: a question that NIM never answers does not
\* keep it streaming.
AskAgain == isStreaming = "yes" ~> isStreaming = "no"
=============================================================================
