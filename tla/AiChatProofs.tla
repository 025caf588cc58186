----------------------------- MODULE AiChatProofs -----------------------------
(***************************************************************************)
(* Proofs about AiChat for any number of questions, conversations, chunks  *)
(* and crashes.                                                            *)
(***************************************************************************)
EXTENDS AiChat, SequenceLemmas, TLAPS

-----------------------------------------------------------------------------
(***************************************************************************)
(* Runs of chunks and of the lines that carry them.                        *)
(***************************************************************************)
Line  == {NoContent} \cup (1 .. MaxChunks)
Chunk == Questions \X (1 .. MaxChunks)

\* The lines after the m-th and up to the n-th are n - m numbers.
LEMMA LinesType ==
    ASSUME NEW m \in Nat, NEW n \in m .. MaxChunks
    PROVE  /\ Lines(m, n) \in Seq(Line)
           /\ Len(Lines(m, n)) = n - m
           /\ \A i \in 1 .. n - m : Lines(m, n)[i] = m + i
<1>1. n \in Nat /\ n - m \in Nat /\ MaxChunks \in Nat
  BY BoundsAssumption
<1>2. \A i \in 1 .. n - m : m + i \in 1 .. MaxChunks
  BY <1>1
<1> QED BY <1>1, <1>2 DEF Lines, Line

\* A run that has not reached its end begins with the next line,
LEMMA LinesHead ==
    ASSUME NEW m \in Nat, NEW n \in m .. MaxChunks, m # n
    PROVE  /\ Lines(m, n) # <<>>
           /\ Head(Lines(m, n)) = m + 1
           /\ Tail(Lines(m, n)) = Lines(m + 1, n)
<1>1. n \in Nat /\ n - m \in Nat \ {0} /\ m + 1 \in Nat /\ n \in m + 1 .. MaxChunks
  BY BoundsAssumption
<1>2. Lines(m, n) \in Seq(Line) /\ Len(Lines(m, n)) = n - m
  BY LinesType
<1>3. Lines(m, n) # <<>>
  BY <1>1, <1>2, EmptySeq
<1>4. /\ Head(Lines(m, n)) = Lines(m, n)[1]
      /\ Tail(Lines(m, n)) \in Seq(Line)
      /\ Len(Tail(Lines(m, n))) = Len(Lines(m, n)) - 1
      /\ \A i \in 1 .. Len(Tail(Lines(m, n))) : Tail(Lines(m, n))[i] = Lines(m, n)[i + 1]
  BY <1>2, <1>3, HeadTailProperties
<1>5. /\ Lines(m + 1, n) \in Seq(Line)
      /\ Len(Lines(m + 1, n)) = n - (m + 1)
      /\ \A i \in 1 .. n - (m + 1) : Lines(m + 1, n)[i] = m + 1 + i
  BY <1>1, LinesType
<1>6. \A i \in 1 .. n - (m + 1) : Tail(Lines(m, n))[i] = Lines(m + 1, n)[i]
  <2>1. \A i \in 1 .. n - (m + 1) : i + 1 \in 1 .. n - m /\ m + (i + 1) = m + 1 + i
    BY <1>1
  <2> QED BY <1>1, <1>2, <1>4, <1>5, <2>1, LinesType
<1>7. Tail(Lines(m, n)) = Lines(m + 1, n)
  <2>1. Len(Tail(Lines(m, n))) = n - (m + 1)
    BY <1>1, <1>2, <1>4
  <2> QED BY <1>4, <1>5, <1>6, <2>1, SeqEqual
<1>8. Lines(m, n)[1] = m + 1
  <2>1. 1 \in 1 .. n - m
    BY <1>1
  <2> QED BY <2>1, LinesType
<1> QED BY <1>3, <1>4, <1>7, <1>8

\* and is empty when it has;
LEMMA LinesEmpty ==
    ASSUME NEW m \in Nat, m <= MaxChunks
    PROVE  Lines(m, m) = <<>>
  BY LinesType, EmptySeq, BoundsAssumption

\* the gateway's next line continues it.
LEMMA LinesAppend ==
    ASSUME NEW m \in Nat, NEW n \in m .. MaxChunks, n + 1 <= MaxChunks
    PROVE  Append(Lines(m, n), n + 1) = Lines(m, n + 1)
<1>1. n + 1 \in m .. MaxChunks /\ n + 1 \in Line /\ n + 1 - m = n - m + 1
  BY BoundsAssumption DEF Line
<1>2. /\ Lines(m, n) \in Seq(Line)
      /\ Len(Lines(m, n)) = n - m
      /\ \A i \in 1 .. n - m : Lines(m, n)[i] = m + i
  BY LinesType
<1>3. /\ Lines(m, n + 1) \in Seq(Line)
      /\ Len(Lines(m, n + 1)) = n + 1 - m
      /\ \A i \in 1 .. n + 1 - m : Lines(m, n + 1)[i] = m + i
  <2>1. ASSUME NEW k \in m .. MaxChunks
        PROVE  /\ Lines(m, k) \in Seq(Line)
               /\ Len(Lines(m, k)) = k - m
               /\ \A i \in 1 .. k - m : Lines(m, k)[i] = m + i
    BY LinesType
  <2> QED BY ONLY <1>1, <2>1
<1>4. /\ Append(Lines(m, n), n + 1) \in Seq(Line)
      /\ Len(Append(Lines(m, n), n + 1)) = n - m + 1
      /\ \A i \in 1 .. n - m : Append(Lines(m, n), n + 1)[i] = m + i
      /\ Append(Lines(m, n), n + 1)[n - m + 1] = n + 1
  BY <1>1, <1>2, AppendProperties
<1>5. \A i \in 1 .. n + 1 - m : Append(Lines(m, n), n + 1)[i] = Lines(m, n + 1)[i]
  <2>1. \A i \in 1 .. n + 1 - m : i \in 1 .. n - m \/ i = n - m + 1
    BY <1>1
  <2>2. m + (n - m + 1) = n + 1
    OBVIOUS
  <2> QED BY <1>1, <1>3, <1>4, <2>1, <2>2
<1> QED BY <1>1, <1>3, <1>4, <1>5, SeqEqual

\* The same of chunks.
LEMMA ChunksType ==
    ASSUME NEW q \in Questions, NEW m \in Nat, NEW n \in m .. MaxChunks
    PROVE  /\ Chunks(q, m, n) \in Seq(Chunk)
           /\ Len(Chunks(q, m, n)) = n - m
           /\ \A i \in 1 .. n - m : Chunks(q, m, n)[i] = <<q, m + i>>
<1>1. n \in Nat /\ n - m \in Nat /\ MaxChunks \in Nat
  BY BoundsAssumption
<1>2. \A i \in 1 .. n - m : <<q, m + i>> \in Chunk
  BY <1>1 DEF Chunk
<1> QED BY <1>1, <1>2 DEF Chunks

\* No chunks lie between a number and itself.
LEMMA ChunksEmpty ==
    ASSUME NEW q \in Questions, NEW m \in Nat, m <= MaxChunks
    PROVE  Chunks(q, m, m) = <<>>
  BY ChunksType, EmptySeq, BoundsAssumption

\* The chunk that follows a run makes it longer by one.
LEMMA ChunksAppend ==
    ASSUME NEW q \in Questions, NEW m \in Nat, NEW n \in m .. MaxChunks,
           NEW k \in 1 .. MaxChunks, k = n + 1
    PROVE  Append(Chunks(q, m, n), <<q, k>>) = Chunks(q, m, k)
<1> DEFINE c == <<q, k>>
<1>1. k \in m .. MaxChunks /\ c \in Chunk /\ k - m = n - m + 1
  BY BoundsAssumption DEF Chunk
<1>2. /\ Chunks(q, m, n) \in Seq(Chunk)
      /\ Len(Chunks(q, m, n)) = n - m
      /\ \A i \in 1 .. n - m : Chunks(q, m, n)[i] = <<q, m + i>>
  BY ChunksType
<1>3. /\ Chunks(q, m, k) \in Seq(Chunk)
      /\ Len(Chunks(q, m, k)) = k - m
      /\ \A i \in 1 .. k - m : Chunks(q, m, k)[i] = <<q, m + i>>
  BY <1>1, ChunksType
<1>4. m + (k - m) = k /\ k - m \in 1 .. k - m
  BY <1>1
<1>5. Chunks(q, m, k)[k - m] = c
  BY <1>3, <1>4
<1> HIDE DEF c
<1>6. /\ Append(Chunks(q, m, n), c) \in Seq(Chunk)
      /\ Len(Append(Chunks(q, m, n), c)) = k - m
      /\ \A i \in 1 .. n - m : Append(Chunks(q, m, n), c)[i] = <<q, m + i>>
      /\ Append(Chunks(q, m, n), c)[k - m] = c
  <2>1. c \in Chunk
    BY <1>1 DEF c
  <2>2. /\ Append(Chunks(q, m, n), c) \in Seq(Chunk)
        /\ Len(Append(Chunks(q, m, n), c)) = Len(Chunks(q, m, n)) + 1
        /\ \A i \in 1 .. Len(Chunks(q, m, n)) :
              Append(Chunks(q, m, n), c)[i] = Chunks(q, m, n)[i]
        /\ Append(Chunks(q, m, n), c)[Len(Chunks(q, m, n)) + 1] = c
    BY <1>2, <2>1, AppendProperties
  <2> QED BY <1>1, <1>2, <2>2
<1>7. \A i \in 1 .. k - m : Append(Chunks(q, m, n), c)[i] = Chunks(q, m, k)[i]
  <2>1. \A i \in 1 .. k - m : i \in 1 .. n - m \/ i = k - m
    BY <1>1
  <2> QED BY <1>3, <1>5, <1>6, <2>1
<1>8. Append(Chunks(q, m, n), c) = Chunks(q, m, k)
  BY <1>3, <1>6, <1>7, SeqEqual
<1> QED BY <1>8 DEF c

\* All the chunks are the answer,
LEMMA ChunksAnswer ==
    ASSUME NEW q \in Questions, NEW n \in 0 .. MaxChunks
    PROVE  Chunks(q, 0, n) = Answer(q, n) /\ Answer(q, n) \in Seq(Chunk)
<1>1. n - 0 = n /\ \A i \in 1 .. n : 0 + i = i
  BY BoundsAssumption
<1>2. Chunks(q, 0, n) = Answer(q, n)
  BY <1>1 DEF Chunks, Answer
<1> QED BY <1>2, ChunksType, BoundsAssumption

\* and the last of them a suffix of it.
LEMMA ChunksSuffix ==
    ASSUME NEW q \in Questions, NEW n \in 0 .. MaxChunks, NEW m \in 0 .. n
    PROVE  IsSuffix(Chunks(q, m, n), Answer(q, n))
<1> DEFINE s == Chunks(q, m, n)
           t == Answer(q, n)
<1>1. n \in Nat /\ m \in Nat /\ n - m \in Nat /\ n \in m .. MaxChunks
  BY BoundsAssumption
<1>2. s \in Seq(Chunk) /\ Len(s) = n - m /\ \A i \in 1 .. n - m : s[i] = <<q, m + i>>
  BY <1>1, ChunksType
<1>3. t \in Seq(Chunk) /\ Len(t) = n /\ \A i \in 1 .. n : t[i] = <<q, i>>
  BY <1>1, ChunksAnswer DEF Answer
<1> HIDE DEF s, t
<1>4. /\ Reverse(s) \in Seq(Chunk) /\ Len(Reverse(s)) = n - m
      /\ \A i \in 1 .. n - m : Reverse(s)[i] = <<q, n - i + 1>>
  <2>1. \A i \in 1 .. n - m : (n - m) - i + 1 \in 1 .. n - m /\ m + ((n - m) - i + 1) = n - i + 1
    BY <1>1
  <2>2. \A i \in 1 .. n - m : s[(n - m) - i + 1] \in Chunk
    BY <1>2, <2>1, ElementOfSeq
  <2> QED BY <1>1, <1>2, <2>1, <2>2 DEF Reverse
<1>5. /\ Reverse(t) \in Seq(Chunk) /\ Len(Reverse(t)) = n
      /\ \A i \in 1 .. n : Reverse(t)[i] = <<q, n - i + 1>>
  <2>1. \A i \in 1 .. n : n - i + 1 \in 1 .. n
    BY <1>1
  <2>2. \A i \in 1 .. n : t[n - i + 1] \in Chunk
    BY <1>3, <2>1, ElementOfSeq
  <2>3. Reverse(t) = [i \in 1 .. n |-> t[n - i + 1]]
    BY <1>3 DEF Reverse
  <2> QED BY <1>1, <1>3, <2>1, <2>2, <2>3
<1> DEFINE a == Reverse(s)
           b == Reverse(t)
<1> HIDE DEF a, b
<1>6. SubSeq(a, 1, n - m) = SubSeq(b, 1, n - m)
  <2>1. /\ a \in Seq(Chunk) /\ Len(a) = n - m /\ \A i \in 1 .. n - m : a[i] = <<q, n - i + 1>>
        /\ b \in Seq(Chunk) /\ Len(b) = n /\ \A i \in 1 .. n : b[i] = <<q, n - i + 1>>
    BY <1>4, <1>5 DEF a, b
  <2>2. /\ SubSeq(a, 1, n - m) \in Seq(Chunk) /\ Len(SubSeq(a, 1, n - m)) = n - m
        /\ \A i \in 1 .. n - m : SubSeq(a, 1, n - m)[i] = a[i]
    BY <1>1, <2>1
  <2>3. /\ SubSeq(b, 1, n - m) \in Seq(Chunk) /\ Len(SubSeq(b, 1, n - m)) = n - m
        /\ \A i \in 1 .. n - m : SubSeq(b, 1, n - m)[i] = b[i]
    BY <1>1, <2>1
  <2>4. \A i \in 1 .. n - m : i \in 1 .. n
    BY <1>1
  <2>5. \A i \in 1 .. n - m : SubSeq(a, 1, n - m)[i] = SubSeq(b, 1, n - m)[i]
    BY <2>1, <2>2, <2>3, <2>4
  <2> QED BY ONLY <2>2, <2>3, <2>5, SeqEqual
<1>7. Len(a) = n - m /\ n - m <= Len(b)
  BY <1>1, <1>4, <1>5 DEF a, b
<1> QED BY <1>6, <1>7 DEF IsSuffix, IsPrefix, a, b, s, t

-----------------------------------------------------------------------------
(***************************************************************************)
(* Type correctness.                                                       *)
(***************************************************************************)
States == {"none", "deciding", "relaying", "opening", "saving", "returned", "failed"}

\* What the app and saveConversation put into a history
LEMMA MessageType ==
    /\ \A q \in Questions : User(q) \in Message
    /\ \A q \in Questions : \A s \in Seq(Chunk) : Assistant(q, s) \in Message
<1>1. <<>> \in Seq(Chunk)
  OBVIOUS
<1> QED BY <1>1 DEF User, Assistant, Message, Chunk

\* The initial state is well typed.
LEMMA TypeInit == Init => TypeOK
<1> SUFFICES ASSUME Init
             PROVE  TypeOK
  OBVIOUS
<1>1. /\ messages \in Seq(Message)
      /\ streamingBuffer \in Seq(Questions \X (1 .. MaxChunks))
      /\ wire \in [Questions -> Seq({NoContent} \cup (1 .. MaxChunks))]
      /\ rows \in [Conversations -> Seq(Message)]
      /\ todo \in [Questions -> Seq(Message)]
  BY DEF Init
<1>2. request \in [Questions -> [conversation : {NoConversation} \cup Conversations,
                                 messages : Seq(Message)]]
  <2>1. <<>> \in Seq(Message)
    OBVIOUS
  <2> QED BY <2>1 DEF Init
<1>3. 0 \in 0 .. MaxChunks /\ 0 \in 0 .. MaxCrashes
  BY BoundsAssumption
<1> QED BY <1>1, <1>2, <1>3 DEF Init, TypeOK

\* The app's steps, newConversation and sendMessage among them, keep the types.
LEMMA TypeApp ==
    ASSUME TypeOK,
           NewConversation \/ \E q \in Questions : SendMessage(q) \/ Reads(q)
    PROVE  TypeOK'
<1> USE DEF database
<1>1. CASE NewConversation
  <2>1. /\ conversationId' \in Conversations
        /\ messages' \in Seq(Message)
        /\ streamingBuffer' \in Seq(Questions \X (1 .. MaxChunks))
    BY <1>1 DEF NewConversation
  <2> QED BY <1>1, <2>1 DEF NewConversation, TypeOK
<1>2. ASSUME NEW q \in Questions, SendMessage(q)
      PROVE  TypeOK'
  <2>1. messages' \in Seq(Message)
    BY <1>2, MessageType, AppendProperties DEF SendMessage, TypeOK
  <2>2. /\ streamingBuffer' \in Seq(Questions \X (1 .. MaxChunks))
        /\ isStreaming' \in {"yes", "no"}
        /\ reading' \subseteq Questions
    BY <1>2 DEF SendMessage, TypeOK
  <2>3. handler' \in [Questions -> {"none", "deciding", "relaying", "opening",
                                    "saving", "returned", "failed"}]
    BY <1>2 DEF SendMessage, TypeOK
  <2>4. request' \in [Questions -> [conversation : {NoConversation} \cup Conversations,
                                    messages : Seq(Message)]]
    <3>1. [conversation |-> conversationId, messages |-> messages'] \in
              [conversation : {NoConversation} \cup Conversations, messages : Seq(Message)]
      BY <2>1 DEF TypeOK
    <3> QED BY <1>2, <3>1 DEF SendMessage, TypeOK
  <2> QED BY <1>2, <2>1, <2>2, <2>3, <2>4 DEF SendMessage, TypeOK
<1>3. ASSUME NEW q \in Questions, ReadLine(q)
      PROVE  TypeOK'
  <2>1. /\ wire[q] \in Seq(Line)
        /\ Head(wire[q]) \in Line /\ Tail(wire[q]) \in Seq(Line)
    BY <1>3, HeadTailProperties DEF ReadLine, TypeOK, Line
  <2>2. wire' \in [Questions -> Seq({NoContent} \cup (1 .. MaxChunks))]
    BY <1>3, <2>1 DEF ReadLine, TypeOK, Line
  <2>3. streamingBuffer' \in Seq(Chunk)
    <3>1. CASE Head(wire[q]) = NoContent
      BY <1>3, <3>1 DEF ReadLine, TypeOK, Chunk
    <3>2. CASE Head(wire[q]) # NoContent
      <4>1. <<q, Head(wire[q])>> \in Chunk /\ streamingBuffer \in Seq(Chunk)
        BY <2>1, <3>2 DEF Line, Chunk, TypeOK
      <4> QED BY <1>3, <3>2, <4>1, AppendProperties DEF ReadLine
    <3> QED BY <3>1, <3>2
  <2> QED BY <1>3, <2>2, <2>3 DEF ReadLine, TypeOK, Chunk
<1>4. ASSUME NEW q \in Questions, StreamEnds(q)
      PROVE  TypeOK'
  <2>1. messages' \in Seq(Message)
    BY <1>4, MessageType, AppendProperties DEF StreamEnds, TypeOK, Chunk
  <2>2. /\ streamingBuffer' \in Seq(Questions \X (1 .. MaxChunks))
        /\ isStreaming' \in {"yes", "no"}
        /\ reading' \subseteq Questions
    BY <1>4 DEF StreamEnds, TypeOK
  <2> QED BY <1>4, <2>1, <2>2 DEF StreamEnds, TypeOK
<1>5. ASSUME NEW q \in Questions, Throws(q)
      PROVE  TypeOK'
  <2>1. wire' \in [Questions -> Seq({NoContent} \cup (1 .. MaxChunks))]
    BY <1>5 DEF Throws, TypeOK
  <2>2. isStreaming' \in {"yes", "no"} /\ reading' \subseteq Questions
    BY <1>5 DEF Throws, TypeOK
  <2> QED BY <1>5, <2>1, <2>2 DEF Throws, TypeOK
<1> QED BY <1>1, <1>2, <1>3, <1>4, <1>5 DEF Reads

\* A line that is sent, and to whom
LEMMA EmitType ==
    ASSUME TypeOK, NEW q \in Questions, NEW l \in Line, Emit(q, l)
    PROVE  /\ wire' \in [Questions -> Seq(Line)]
           /\ \A p \in Questions :
                 wire'[p] = IF p = q /\ q \in reading THEN Append(wire[q], l) ELSE wire[p]
<1>1. wire \in [Questions -> Seq(Line)]
  BY DEF TypeOK, Line
<1>2. Append(wire[q], l) \in Seq(Line)
  BY <1>1, AppendProperties
<1> QED BY <1>1, <1>2 DEF Emit

\* An exchange as it is saved
LEMMA ExchangeType ==
    ASSUME TypeOK, NEW q \in Questions
    PROVE  /\ Exchange(q) \in Seq(Message)
           /\ Len(Exchange(q)) = Len(request[q].messages) + 1
           /\ \A i \in 1 .. Len(request[q].messages) : Exchange(q)[i] = request[q].messages[i]
           /\ Exchange(q)[Len(request[q].messages) + 1]
                  = Assistant(q, Answer(q, received[q]))
<1>1. request[q].messages \in Seq(Message) /\ received[q] \in 0 .. MaxChunks
  BY DEF TypeOK
<1>2. Assistant(q, Answer(q, received[q])) \in Message
  BY <1>1, ChunksAnswer, MessageType
<1> QED BY <1>1, <1>2, AppendProperties DEF Exchange

\* Only a question of a conversation is saved, which types the table.
LEMMA TypeChat ==
    ASSUME TypeOK, NEW q \in Questions, Chat(q),
           handler[q] = "opening" => request[q].conversation # NoConversation
    PROVE  TypeOK'
<1> USE DEF database, app
<1>h. ASSUME NEW a, NEW b \in States, Goto(q, a, b)
      PROVE  handler' \in [Questions -> {"none", "deciding", "relaying", "opening",
                                         "saving", "returned", "failed"}]
  BY <1>h DEF Goto, TypeOK, States
<1>w. NoContent \in Line
  BY DEF Line
<1>1. CASE Refuse(q)
  BY <1>1, <1>h DEF Refuse, TypeOK, States
<1>2. CASE StreamFails(q)
  <2>1. wire' \in [Questions -> Seq({NoContent} \cup (1 .. MaxChunks))]
    BY <1>2, <1>w, EmitType DEF StreamFails, Line
  <2> QED BY <1>2, <2>1, <1>h DEF StreamFails, TypeOK, States
<1>3. CASE StreamBegins(q)
  BY <1>3, <1>h DEF StreamBegins, TypeOK, States
<1>4. CASE Relay(q)
  <2>1. received[q] + 1 \in 1 .. MaxChunks
    BY <1>4, BoundsAssumption DEF Relay, TypeOK
  <2>2. wire' \in [Questions -> Seq({NoContent} \cup (1 .. MaxChunks))]
    BY <1>4, <2>1, EmitType DEF Relay, Line
  <2>3. received' \in [Questions -> 0 .. MaxChunks]
    BY <1>4, <2>1 DEF Relay, TypeOK
  <2> QED BY <1>4, <2>2, <2>3 DEF Relay, TypeOK
<1>5. CASE RelayEnds(q)
  <2>1. wire' \in [Questions -> Seq({NoContent} \cup (1 .. MaxChunks))]
    BY <1>5, <1>w, EmitType DEF RelayEnds, Line
  <2> QED BY <1>5, <2>1, <1>h DEF RelayEnds, TypeOK, States
<1>6. CASE OpenConversation(q)
  <2>1. CASE /\ Goto(q, "opening", "saving")
             /\ conversations' = conversations \cup {request[q].conversation}
             /\ todo' = [todo EXCEPT ![q] = Exchange(q)]
             /\ UNCHANGED <<app, request, received, wire, rows, crashes, unsaved>>
    <3>1. todo' \in [Questions -> Seq(Message)]
      BY <2>1, ExchangeType DEF TypeOK
    <3>2. conversations' \subseteq Conversations
      <4>1. request[q].conversation \in Conversations
        BY <2>1 DEF TypeOK, Goto
      <4> QED BY <2>1, <4>1 DEF TypeOK
    <3> QED BY <2>1, <3>1, <3>2, <1>h DEF TypeOK, States
  <2>2. CASE /\ Goto(q, "opening", "returned")
             /\ unsaved' = unsaved \cup {q}
             /\ UNCHANGED <<app, request, received, wire, rows, conversations, todo, crashes>>
    BY <2>2, <1>h DEF TypeOK, States
  <2> QED BY <1>6, <2>1, <2>2 DEF OpenConversation, Exchange
<1>7. CASE InsertMessage(q)
  <2>1. /\ todo[q] \in Seq(Message) /\ todo[q] # <<>>
        /\ Head(todo[q]) \in Message /\ Tail(todo[q]) \in Seq(Message)
    BY <1>7, HeadTailProperties DEF InsertMessage, TypeOK
  <2>2. todo' \in [Questions -> Seq(Message)]
    BY <1>7, <2>1 DEF InsertMessage, TypeOK
  <2>3. rows' \in [Conversations -> Seq(Message)]
    <3>1. ASSUME NEW c
          PROVE  [rows EXCEPT ![c] = Append(@, Head(todo[q]))] \in [Conversations -> Seq(Message)]
      <4>1. \A d \in Conversations : Append(rows[d], Head(todo[q])) \in Seq(Message)
        BY <2>1, AppendProperties DEF TypeOK
      <4> QED BY <4>1 DEF TypeOK
    <3> QED BY <1>7, <3>1 DEF InsertMessage, TypeOK
  <2>4. unsaved' \subseteq Questions
    BY <1>7 DEF InsertMessage, TypeOK
  <2> QED BY <1>7, <2>2, <2>3, <2>4 DEF InsertMessage, TypeOK
<1>8. CASE Return(q)
  BY <1>8, <1>h DEF Return, TypeOK, States
<1> QED BY <1>1, <1>2, <1>3, <1>4, <1>5, <1>6, <1>7, <1>8 DEF Chat

\* A crash of the gateway keeps the types.
LEMMA TypeCrash ==
    ASSUME TypeOK, Crash
    PROVE  TypeOK'
<1>1. /\ todo' \in [Questions -> Seq(Message)]
      /\ crashes' \in 0 .. MaxCrashes
  BY BoundsAssumption DEF Crash, TypeOK
<1>2. handler' \in [Questions -> {"none", "deciding", "relaying", "opening",
                                  "saving", "returned", "failed"}]
  BY DEF Crash, TypeOK
<1> QED BY <1>1, <1>2 DEF Crash, TypeOK, app

\* Every step keeps the types: a row is inserted only into a conversation that has been opened.
LEMMA TypeNext == TypeOK /\ SavedSoFar /\ [Next]_vars => TypeOK'
<1> SUFFICES ASSUME TypeOK, SavedSoFar, [Next]_vars
             PROVE  TypeOK'
  OBVIOUS
<1>1. CASE UNCHANGED vars
  BY <1>1 DEF vars, TypeOK
<1> QED BY <1>1, TypeApp, TypeChat, TypeCrash DEF Next, SavedSoFar, Saved

-----------------------------------------------------------------------------
(***************************************************************************)
(* The stream under way.                                                   *)
(***************************************************************************)
LEMMA StreamNext ==
    ASSUME TypeOK, OneStream, [Next]_vars
    PROVE  OneStream'
<1>1. ASSUME NEW q \in Questions, SendMessage(q)
      PROVE  OneStream'
  <2>1. reading = {} /\ reading' = reading \cup {q} /\ isStreaming' = "yes"
    BY <1>1 DEF SendMessage, OneStream
  <2> QED BY <2>1 DEF OneStream
<1>2. ASSUME NEW q \in Questions, StreamEnds(q) \/ Throws(q)
      PROVE  OneStream'
  <2>1. reading \subseteq {q} /\ reading' = reading \ {q} /\ isStreaming' = "no"
    BY <1>2 DEF StreamEnds, Throws, OneStream
  <2> QED BY <2>1 DEF OneStream
<1>3. CASE UNCHANGED <<isStreaming, reading>>
  BY <1>3 DEF OneStream
<1>4. \/ \E q \in Questions : SendMessage(q) \/ StreamEnds(q) \/ Throws(q)
      \/ UNCHANGED <<isStreaming, reading>>
  BY DEF Next, Reads, ReadLine, NewConversation, Chat, Refuse, StreamFails, StreamBegins,
         Relay, RelayEnds, OpenConversation, InsertMessage, Return, Crash, vars, app
<1> QED BY <1>1, <1>2, <1>3, <1>4

\* Steps that touch neither the buffer nor the lines
LEMMA BufferKept ==
    ASSUME BufferIsOneAnswer,
           UNCHANGED <<messages, streamingBuffer, reading, received, wire>>,
           \A q \in reading :
              handler'[q] \in {"deciding", "relaying"} => handler[q] \in {"deciding", "relaying"}
    PROVE  BufferIsOneAnswer'
<1> SUFFICES ASSUME NEW q \in reading
             PROVE  \E n \in 0 .. received[q] : ShowsUpTo(q, n)'
  BY DEF BufferIsOneAnswer
<1>1. PICK n \in 0 .. received[q] : ShowsUpTo(q, n)
  BY DEF BufferIsOneAnswer
<1>2. ShowsUpTo(q, n)'
  BY <1>1 DEF ShowsUpTo
<1> QED BY <1>2

\* A new conversation empties the buffer: what is shown begins behind what has
\* been read.
LEMMA BufferNew ==
    ASSUME TypeOK, BufferIsOneAnswer, NewConversation
    PROVE  BufferIsOneAnswer'
<1>0. /\ messages' = <<>> /\ streamingBuffer' = <<>>
      /\ UNCHANGED <<reading, handler, received, wire>>
  BY DEF NewConversation
<1> SUFFICES ASSUME NEW q \in reading
             PROVE  \E n \in 0 .. received[q] : ShowsUpTo(q, n)'
  BY <1>0 DEF BufferIsOneAnswer
<1>1. PICK n \in 0 .. received[q] : ShowsUpTo(q, n)
  BY DEF BufferIsOneAnswer
<1>2. q \in Questions /\ received[q] \in 0 .. MaxChunks /\ n \in Nat /\ n <= MaxChunks
  BY <1>1, BoundsAssumption DEF TypeOK
<1>3. streamingBuffer' = Chunks(q, n, n)
  BY <1>0, <1>2, ChunksEmpty
<1>4. n \in 0 .. n
  BY <1>2
<1>5. ShowsUpTo(q, n)'
  BY <1>0, <1>1, <1>3, <1>4 DEF ShowsUpTo
<1> QED BY <1>5

\* A stream begins with nothing read and nothing sent.
LEMMA BufferBegins ==
    ASSUME TypeOK, OneStream, Asked, NEW q \in Questions, SendMessage(q)
    PROVE  BufferIsOneAnswer'
<1>1. /\ reading' = {q} /\ streamingBuffer' = <<>>
      /\ received' = received /\ wire' = wire
  BY DEF SendMessage, OneStream
<1>2. received[q] = 0 /\ wire[q] = <<>>
  BY DEF SendMessage, IsNext, Asked
<1>3. Chunks(q, 0, 0) = <<>> /\ Lines(0, 0) = <<>>
  BY ChunksEmpty, LinesEmpty, BoundsAssumption
<1>4. 0 \in 0 .. 0
  OBVIOUS
<1>5. ShowsUpTo(q, 0)'
  BY <1>1, <1>2, <1>3, <1>4 DEF ShowsUpTo
<1> QED BY <1>1, <1>2, <1>4, <1>5 DEF BufferIsOneAnswer

\* A line that is read takes its chunk from the wire to the buffer.
LEMMA BufferReads ==
    ASSUME TypeOK, OneStream, BufferIsOneAnswer, NEW q \in Questions, ReadLine(q)
    PROVE  BufferIsOneAnswer'
<1> DEFINE r == received[q]
<1>1. /\ reading = {q} /\ wire[q] # <<>> /\ wire'[q] = Tail(wire[q])
      /\ UNCHANGED <<messages, reading, handler, received>>
      /\ streamingBuffer' = IF Head(wire[q]) = NoContent THEN streamingBuffer
                            ELSE Append(streamingBuffer, <<q, Head(wire[q])>>)
  BY DEF ReadLine, OneStream, TypeOK
<1>2. PICK n \in 0 .. r : ShowsUpTo(q, n)
  BY <1>1 DEF BufferIsOneAnswer
<1>3. /\ r \in 0 .. MaxChunks /\ r \in Nat /\ n \in Nat /\ n <= r
      /\ n <= MaxChunks /\ r \in n .. MaxChunks /\ MaxChunks \in Nat
  BY <1>2, BoundsAssumption DEF TypeOK
<1>4. PICK m \in 0 .. n : streamingBuffer = Chunks(q, m, n) /\ (messages # <<>> => m = 0)
  BY <1>2 DEF ShowsUpTo
<1>l. Lines(n, r) \in Seq(Line) /\ NoContent \in Line
  BY <1>3, LinesType DEF Line
<1> HIDE DEF r
<1>5. CASE n = r
  <2>1. wire[q] = Append(Lines(n, r), NoContent) /\ Lines(n, r) = <<>>
    BY <1>1, <1>2, <1>3, <1>5, LinesEmpty DEF ShowsUpTo, r
  <2>2. Head(wire[q]) = NoContent /\ Tail(wire[q]) = <<>>
    BY <2>1
  <2>3. wire'[q] = Lines(n, r)' /\ streamingBuffer' = streamingBuffer
    BY <1>1, <2>1, <2>2 DEF r
  <2>4. ShowsUpTo(q, n)'
    BY <1>1, <1>4, <2>3 DEF ShowsUpTo, r
  <2> QED BY <1>1, <1>2, <2>4 DEF BufferIsOneAnswer, r
<1>6. CASE n # r
  <2> DEFINE k == n + 1
  <2>1. k \in 0 .. r /\ k \in 1 .. MaxChunks /\ m \in Nat /\ n \in m .. MaxChunks /\ m \in 0 .. k
    BY <1>3, <1>4, <1>6
  <2>2. /\ Lines(n, r) # <<>> /\ Head(Lines(n, r)) = k
        /\ Tail(Lines(n, r)) = Lines(k, r)
    BY <1>3, <1>6, LinesHead
  <2>3. Append(Chunks(q, m, n), <<q, k>>) = Chunks(q, m, k)
    BY <2>1, ChunksAppend
  <2> HIDE DEF k
  <2>4. /\ Head(wire[q]) = k
        /\ \/ wire'[q] = Lines(k, r)
           \/ /\ handler[q] \notin {"deciding", "relaying"}
              /\ wire'[q] = Append(Lines(k, r), NoContent)
    <3>1. CASE wire[q] = Lines(n, r)
      BY <1>1, <2>2, <3>1
    <3>2. CASE /\ handler[q] \notin {"deciding", "relaying"}
               /\ wire[q] = Append(Lines(n, r), NoContent)
      <4>1. /\ Head(Append(Lines(n, r), NoContent)) = Head(Lines(n, r))
            /\ Tail(Append(Lines(n, r), NoContent)) = Append(Tail(Lines(n, r)), NoContent)
        BY <1>l, <2>2, HeadTailAppend
      <4> QED BY <1>1, <2>2, <3>2, <4>1
    <3> QED BY <1>2, <3>1, <3>2 DEF ShowsUpTo, r
  <2>5. k # NoContent
    BY <2>1 DEF NoContent
  <2>6. streamingBuffer' = Chunks(q, m, k)
    BY <1>1, <1>4, <2>3, <2>4, <2>5
  <2>7. ShowsUpTo(q, k)'
    BY <1>1, <1>4, <2>1, <2>4, <2>6 DEF ShowsUpTo, r
  <2> QED BY <1>1, <2>1, <2>7 DEF BufferIsOneAnswer, r
<1> QED BY <1>5, <1>6

\* A line that is sent continues those on their way, and the line without
\* content is the last.
LEMMA BufferSent ==
    ASSUME TypeOK, OneStream, BufferIsOneAnswer, NEW q \in Questions,
           Relay(q) \/ RelayEnds(q) \/ StreamFails(q)
    PROVE  BufferIsOneAnswer'
<1> DEFINE r == received[q]
<1>0. /\ UNCHANGED <<messages, streamingBuffer, reading>>
      /\ \A p \in Questions \ {q} : /\ received'[p] = received[p]
                                    /\ handler'[p] = handler[p]
      /\ handler[q] \in {"deciding", "relaying"}
  BY DEF Relay, RelayEnds, StreamFails, Goto, TypeOK, app
<1>1. \/ /\ r < MaxChunks /\ Emit(q, r + 1)
         /\ received'[q] = r + 1 /\ handler'[q] = handler[q]
      \/ /\ Emit(q, NoContent)
         /\ received'[q] = r /\ handler'[q] \notin {"deciding", "relaying"}
  BY DEF Relay, RelayEnds, StreamFails, Goto, TypeOK
<1>2. r \in 0 .. MaxChunks /\ r \in Nat /\ MaxChunks \in Nat
  BY BoundsAssumption DEF TypeOK
<1>3. \A p \in Questions : wire'[p] = IF p = q /\ q \in reading
                                        THEN IF received'[q] = r + 1
                                               THEN Append(wire[q], r + 1)
                                               ELSE Append(wire[q], NoContent)
                                        ELSE wire[p]
  <2>1. CASE r < MaxChunks /\ Emit(q, r + 1) /\ received'[q] = r + 1
    <3>1. r + 1 \in Line
      BY <1>2, <2>1 DEF Line
    <3> QED BY <2>1, <3>1, EmitType
  <2>2. CASE Emit(q, NoContent) /\ received'[q] = r
    <3>1. NoContent \in Line /\ r # r + 1
      BY <1>2 DEF Line
    <3> QED BY <2>2, <3>1, EmitType
  <2> QED BY <1>1, <2>1, <2>2
<1> HIDE DEF r
<1> SUFFICES ASSUME NEW p \in reading
             PROVE  \E n \in 0 .. received'[p] : ShowsUpTo(p, n)'
  BY <1>0 DEF BufferIsOneAnswer
<1>4. PICK n \in 0 .. received[p] : ShowsUpTo(p, n)
  BY DEF BufferIsOneAnswer
<1>5. p \in Questions
  BY DEF TypeOK
<1>6. CASE p # q
  <2>1. wire'[p] = wire[p] /\ received'[p] = received[p] /\ handler'[p] = handler[p]
    BY <1>0, <1>3, <1>5, <1>6
  <2>2. ShowsUpTo(p, n)'
    BY <1>0, <1>4, <2>1 DEF ShowsUpTo
  <2> QED BY <1>4, <2>1, <2>2
<1>7. CASE p = q
  <2>1. wire[q] = Lines(n, r) /\ n \in 0 .. r
    BY <1>0, <1>4, <1>7 DEF ShowsUpTo, r
  <2>2. \E m \in 0 .. n : streamingBuffer = Chunks(q, m, n) /\ (messages # <<>> => m = 0)
    BY <1>4, <1>7 DEF ShowsUpTo
  <2>3. CASE r < MaxChunks /\ received'[q] = r + 1
    <3>1. n \in Nat /\ r \in n .. MaxChunks /\ r + 1 <= MaxChunks /\ n \in 0 .. r + 1
      BY <1>2, <2>1, <2>3
    <3>2. wire'[q] = Lines(n, r + 1)
      BY <1>3, <1>7, <2>1, <2>3, <3>1, LinesAppend
    <3>3. ShowsUpTo(q, n)'
      BY <1>0, <2>2, <2>3, <3>2 DEF ShowsUpTo
    <3> QED BY <1>7, <2>3, <3>1, <3>3
  <2>4. CASE received'[q] = r /\ handler'[q] \notin {"deciding", "relaying"}
    <3>1. r # r + 1
      BY <1>2
    <3>2. wire'[q] = Append(Lines(n, r), NoContent)
      BY <1>3, <1>7, <2>1, <2>4, <3>1
    <3>3. ShowsUpTo(q, n)'
      BY <1>0, <2>2, <2>4, <3>2 DEF ShowsUpTo
    <3> QED BY <1>7, <2>1, <2>4, <3>3
  <2> QED BY <1>1, <2>3, <2>4
<1> QED BY <1>6, <1>7

\* The bubble keeps showing one answer without a gap, whoever moves.
LEMMA BufferNext ==
    ASSUME TypeOK, OneStream, Asked, BufferIsOneAnswer, [Next]_vars
    PROVE  BufferIsOneAnswer'
<1>1. ASSUME NEW q \in Questions, StreamEnds(q) \/ Throws(q)
      PROVE  BufferIsOneAnswer'
  <2>1. reading' = {}
    BY <1>1 DEF StreamEnds, Throws, OneStream
  <2> QED BY <2>1 DEF BufferIsOneAnswer
<1>2. ASSUME NEW q \in Questions,
             Refuse(q) \/ StreamBegins(q) \/ OpenConversation(q) \/ InsertMessage(q) \/ Return(q)
      PROVE  BufferIsOneAnswer'
  <2>1. UNCHANGED <<messages, streamingBuffer, reading, received, wire>>
    BY <1>2 DEF Refuse, StreamBegins, OpenConversation, InsertMessage, Return, app
  <2>2. \A p \in Questions :
           handler'[p] \in {"deciding", "relaying"} => handler[p] \in {"deciding", "relaying"}
    BY <1>2 DEF Refuse, StreamBegins, OpenConversation, InsertMessage, Return, Goto, app, TypeOK
  <2> QED BY <2>1, <2>2, BufferKept DEF TypeOK
<1>3. CASE Crash
  <2>1. UNCHANGED <<messages, streamingBuffer, reading, received, wire>>
    BY <1>3 DEF Crash, app
  <2>2. \A p \in Questions : handler'[p] \notin {"deciding", "relaying"}
    BY <1>3 DEF Crash
  <2> QED BY <2>1, <2>2, BufferKept DEF TypeOK
<1>4. CASE UNCHANGED vars
  BY <1>4, BufferKept DEF vars
<1> QED BY <1>1, <1>2, <1>3, <1>4, BufferNew, BufferBegins, BufferReads, BufferSent
        DEF Next, Reads, Chat

-----------------------------------------------------------------------------
(***************************************************************************)
(* Questions and their histories.                                          *)
(***************************************************************************)
\* Only SendMessage takes a handler out of "none", and none goes back.
LEMMA HandlerStarts ==
    ASSUME TypeOK, [Next]_vars
    PROVE  \/ \E q \in Questions : SendMessage(q)
           \/ /\ request' = request
              /\ \A q \in Questions : handler'[q] = "none" <=> handler[q] = "none"
<1>1. CASE Crash
  BY <1>1 DEF Crash, TypeOK
<1>2. ASSUME NEW q \in Questions, Chat(q)
      PROVE  /\ request' = request
             /\ \A p \in Questions : handler'[p] = "none" <=> handler[p] = "none"
  BY <1>2 DEF Chat, Refuse, StreamFails, StreamBegins, Relay, RelayEnds, OpenConversation,
              InsertMessage, Return, Goto, TypeOK
<1>3. ASSUME NewConversation \/ UNCHANGED vars \/ \E q \in Questions : Reads(q)
      PROVE  UNCHANGED <<request, handler>>
  BY <1>3 DEF NewConversation, Reads, ReadLine, StreamEnds, Throws, vars
<1> QED BY <1>1, <1>2, <1>3 DEF Next

\* A question that has not been sent has no lines and no chunks.
LEMMA Unsent ==
    ASSUME TypeOK, Asked, [Next]_vars, NEW q \in Questions,
           handler[q] = "none", ~SendMessage(q)
    PROVE  q \notin reading' /\ wire'[q] = <<>> /\ received'[q] = 0
<1>0. q \notin reading /\ wire[q] = <<>> /\ received[q] = 0
  BY DEF Asked
<1>1. ASSUME NEW p \in Questions, SendMessage(p)
      PROVE  q \notin reading' /\ wire'[q] = <<>> /\ received'[q] = 0
  BY <1>0, <1>1 DEF SendMessage
<1>2. ASSUME NEW p \in Questions, Reads(p)
      PROVE  q \notin reading' /\ wire'[q] = <<>> /\ received'[q] = 0
  <2>1. p # q
    BY <1>0, <1>2 DEF Reads, ReadLine, StreamEnds, Throws
  <2> QED BY <1>0, <1>2, <2>1 DEF Reads, ReadLine, StreamEnds, Throws, TypeOK
<1>3. ASSUME NEW p \in Questions, Relay(p) \/ RelayEnds(p) \/ StreamFails(p)
      PROVE  q \notin reading' /\ wire'[q] = <<>> /\ received'[q] = 0
  <2>1. p # q
    BY <1>3 DEF Relay, RelayEnds, StreamFails, Goto
  <2>2. wire'[q] = wire[q]
    BY <1>3, <2>1 DEF Relay, RelayEnds, StreamFails, Emit, TypeOK
  <2>3. received'[q] = received[q] /\ reading' = reading
    BY <1>3, <2>1 DEF Relay, RelayEnds, StreamFails, TypeOK, app
  <2> QED BY <1>0, <2>2, <2>3
<1>4. CASE UNCHANGED <<reading, wire, received>>
  BY <1>0, <1>4
<1>5. \/ \E p \in Questions : \/ SendMessage(p) \/ Reads(p)
                              \/ Relay(p) \/ RelayEnds(p) \/ StreamFails(p)
      \/ UNCHANGED <<reading, wire, received>>
  BY DEF Next, NewConversation, Chat, Refuse, StreamBegins, OpenConversation, InsertMessage,
         Return, Crash, vars, app
<1> QED BY <1>1, <1>2, <1>3, <1>4, <1>5

\* A question that is sent ends the history that it is sent with.
LEMMA Sent ==
    ASSUME TypeOK, OneStream, NEW q \in Questions, SendMessage(q)
    PROVE  /\ request'[q].messages = Append(messages, User(q))
           /\ request'[q].messages # <<>> /\ Last(request'[q].messages) = User(q)
           /\ messages' = request'[q].messages
           /\ conversationId' = request'[q].conversation
           /\ reading' = {q} /\ handler'[q] = "deciding"
           /\ \A p \in Questions \ {q} : request'[p] = request[p] /\ handler'[p] = handler[p]
<1>1. /\ messages' = Append(messages, User(q)) /\ conversationId' = conversationId
      /\ reading' = {q} /\ handler' = [handler EXCEPT ![q] = "deciding"]
      /\ request' = [request EXCEPT ![q] = [conversation |-> conversationId,
                                            messages |-> messages']]
  BY DEF SendMessage, OneStream
<1>2. /\ request'[q].messages = messages' /\ request'[q].conversation = conversationId
      /\ \A p \in Questions \ {q} : request'[p] = request[p] /\ handler'[p] = handler[p]
      /\ handler'[q] = "deciding"
  BY <1>1 DEF TypeOK
<1>3. messages \in Seq(Message) /\ User(q) \in Message
  BY MessageType DEF TypeOK
<1>4. /\ Append(messages, User(q)) \in Seq(Message)
      /\ Len(Append(messages, User(q))) = Len(messages) + 1
      /\ Append(messages, User(q))[Len(messages) + 1] = User(q)
      /\ Len(messages) \in Nat
  BY <1>3, AppendProperties, LenProperties
<1>5. Append(messages, User(q)) # <<>> /\ Last(Append(messages, User(q))) = User(q)
  BY <1>4 DEF Last
<1> QED BY <1>1, <1>2, <1>5

\* What the app shows stays the history that its question was sent with.
LEMMA AskedNext ==
    ASSUME TypeOK, OneStream, Asked, [Next]_vars
    PROVE  Asked'
<1>1. ASSUME NEW q \in Questions, handler'[q] = "none"
      PROVE  q \notin reading' /\ wire'[q] = <<>> /\ received'[q] = 0
  <2>1. handler[q] = "none" /\ ~SendMessage(q)
    BY <1>1, HandlerStarts, Sent
  <2> QED BY <2>1, Unsent
<1>2. ASSUME NEW q \in Questions, handler'[q] # "none"
      PROVE  request'[q].messages # <<>> /\ Last(request'[q].messages) = User(q)
  BY <1>2, HandlerStarts, Sent DEF Asked
<1>3. ASSUME NEW q \in reading', messages' # <<>>
      PROVE  messages' = request'[q].messages /\ conversationId' = request'[q].conversation
  <2>1. CASE \E p \in Questions : SendMessage(p)
    BY <1>3, <2>1, Sent
  <2>2. CASE ~ \E p \in Questions : SendMessage(p)
    <3>1. request' = request
      BY <2>2, HandlerStarts
    <3>2. ~ NewConversation
      BY <1>3 DEF NewConversation
    <3>3. ~ \E p \in Questions : StreamEnds(p) \/ Throws(p)
      <4>1. ASSUME NEW p \in Questions, StreamEnds(p) \/ Throws(p)
            PROVE  reading' = {}
        BY <4>1 DEF StreamEnds, Throws, OneStream
      <4> QED BY <1>3, <4>1
    <3>4. UNCHANGED <<messages, conversationId, reading>>
      BY <2>2, <3>2, <3>3 DEF Next, Reads, ReadLine, Chat, Refuse, StreamFails, StreamBegins,
         Relay, RelayEnds, OpenConversation, InsertMessage, Return, Crash, vars, app
    <3> QED BY <1>3, <3>1, <3>4 DEF Asked
  <2> QED BY <2>1, <2>2
<1> QED BY <1>1, <1>2, <1>3 DEF Asked

-----------------------------------------------------------------------------
(***************************************************************************)
(* Answers.                                                                *)
(***************************************************************************)
\* What a handler received and was asked does not change once it has relayed.
LEMMA ExchangeStays ==
    ASSUME TypeOK, OneStream, [Next]_vars, NEW q \in Questions,
           handler[q] \notin {"none", "deciding", "relaying"}
    PROVE  /\ received'[q] = received[q] /\ request'[q] = request[q]
           /\ Exchange(q)' = Exchange(q)
           /\ Answer(q, received[q])' = Answer(q, received[q])
<1>1. received'[q] = received[q] /\ request'[q] = request[q]
  <2>1. ASSUME NEW p \in Questions, SendMessage(p)
        PROVE  received'[q] = received[q] /\ request'[q] = request[q]
    <3>1. p # q
      BY <2>1 DEF SendMessage, IsNext
    <3>2. received' = received
      BY <2>1 DEF SendMessage
    <3> QED BY <2>1, <3>1, <3>2, Sent
  <2>2. ASSUME NEW p \in Questions, Relay(p)
        PROVE  received'[q] = received[q] /\ request'[q] = request[q]
    BY <2>2 DEF Relay, TypeOK
  <2>3. CASE UNCHANGED <<received, request>>
    BY <2>3
  <2>4. \/ \E p \in Questions : SendMessage(p) \/ Relay(p)
        \/ UNCHANGED <<received, request>>
    BY DEF Next, Reads, ReadLine, StreamEnds, Throws, NewConversation, Chat, Refuse,
           StreamFails, StreamBegins, RelayEnds, OpenConversation, InsertMessage, Return,
           Crash, vars
  <2> QED BY <2>1, <2>2, <2>3, <2>4
<1> QED BY <1>1 DEF Exchange, Answer

\* A handler returns once.
LEMMA ReturnedStays ==
    ASSUME TypeOK, OneStream, [Next]_vars, NEW q \in Questions, handler[q] = "returned"
    PROVE  /\ handler'[q] = "returned" /\ received'[q] = received[q]
           /\ request'[q] = request[q] /\ Exchange(q)' = Exchange(q)
           /\ Answer(q, received[q])' = Answer(q, received[q])
<1>1. ASSUME NEW p \in Questions, SendMessage(p)
      PROVE  handler'[q] = "returned"
  BY <1>1, Sent DEF SendMessage, IsNext
<1>2. ASSUME NEW p \in Questions, Chat(p)
      PROVE  handler'[q] = "returned"
  BY <1>2 DEF Chat, Refuse, StreamFails, StreamBegins, Relay, RelayEnds,
              OpenConversation, InsertMessage, Return, Goto, TypeOK
<1>3. ASSUME Crash
      PROVE  handler'[q] = "returned"
  BY <1>3 DEF Crash
<1>4. \/ \E p \in Questions : SendMessage(p) \/ Chat(p)
      \/ Crash
      \/ handler' = handler
  BY DEF Next, Reads, ReadLine, StreamEnds, Throws, NewConversation, vars
<1> QED BY <1>1, <1>2, <1>3, <1>4, ExchangeStays

\* The answer that is added when a stream ends
LEMMA AnswerAdded ==
    ASSUME Inv, NEW q \in Questions, StreamEnds(q)
    PROVE  /\ handler[q] = "returned"
           /\ messages' = Append(messages, Assistant(q, streamingBuffer))
           /\ \E m \in 0 .. received[q] : streamingBuffer = Chunks(q, m, received[q])
           /\ messages # <<>> =>
                 /\ streamingBuffer = Answer(q, received[q])
                 /\ messages = request[q].messages /\ Last(messages) = User(q)
                 /\ messages' = Exchange(q)
                 /\ conversationId = request[q].conversation
<1> DEFINE r == received[q]
<1>1. /\ handler[q] = "returned" /\ wire[q] = <<>> /\ q \in reading
      /\ messages' = Append(messages, Assistant(q, streamingBuffer))
  BY DEF StreamEnds, AtEnd
<1>2. TypeOK /\ BufferIsOneAnswer /\ Asked /\ r \in 0 .. MaxChunks
  BY DEF Inv, TypeOK
<1>3. PICK n \in 0 .. r : ShowsUpTo(q, n)
  BY <1>1, <1>2 DEF BufferIsOneAnswer
<1>4. n \in Nat /\ r \in n .. MaxChunks
  BY <1>2, <1>3
<1>5. n = r
  <2>1. Append(Lines(n, r), NoContent) # <<>>
    <3>1. Lines(n, r) \in Seq(Line) /\ NoContent \in Line
      BY <1>4, LinesType DEF Line
    <3> QED BY <3>1, AppendProperties
  <2>2. Lines(n, r) = <<>>
    BY <1>1, <1>3, <2>1 DEF ShowsUpTo
  <2> QED BY <1>4, <2>2, LinesHead
<1>6. PICK m \in 0 .. r : streamingBuffer = Chunks(q, m, r) /\ (messages # <<>> => m = 0)
  BY <1>3, <1>5 DEF ShowsUpTo
<1>7. ASSUME messages # <<>>
      PROVE  /\ streamingBuffer = Answer(q, r)
             /\ messages = request[q].messages /\ Last(messages) = User(q)
             /\ messages' = Exchange(q)
             /\ conversationId = request[q].conversation
  <2>1. streamingBuffer = Answer(q, r)
    BY <1>2, <1>6, <1>7, ChunksAnswer
  <2>2. /\ messages = request[q].messages /\ Last(messages) = User(q)
        /\ conversationId = request[q].conversation
    BY <1>1, <1>2, <1>7 DEF Asked
  <2> QED BY <1>1, <2>1, <2>2 DEF Exchange
<1> QED BY <1>1, <1>6, <1>7

\* Steps that leave the messages alone, or begin anew.
LEMMA MessagesStep ==
    ASSUME TypeOK, [Next]_vars
    PROVE  \/ \E q \in Questions : SendMessage(q) \/ StreamEnds(q)
           \/ UNCHANGED <<messages, conversationId>>
           \/ messages' = <<>>
  BY DEF Next, Reads, ReadLine, Throws, NewConversation, Chat, Refuse, StreamFails,
         StreamBegins, Relay, RelayEnds, OpenConversation, InsertMessage, Return, Crash,
         vars, app

\* An answer is added only when its stream has ended, and ends its exchange.
LEMMA AnsweredNext ==
    ASSUME Inv, [Next]_vars
    PROVE  Answered'
<1>0. TypeOK /\ OneStream /\ Answered /\ messages \in Seq(Message) /\ Len(messages) \in Nat
  BY LenProperties DEF Inv, TypeOK
<1>t. \A i \in 1 .. Len(messages) : messages[i] \in Message /\ messages[i].of \in Questions
  <2>1. \A x \in Message : x.of \in Questions
    BY DEF Message
  <2> QED BY <1>0, <2>1, ElementOfSeq
<1>1. ASSUME NEW q \in Questions, SendMessage(q)
      PROVE  Answered'
  <2>1. messages' = Append(messages, User(q)) /\ User(q) \in Message
    BY <1>0, <1>1, Sent, MessageType
  <2>2. /\ Len(messages') = Len(messages) + 1 /\ DOMAIN messages' = 1 .. Len(messages) + 1
        /\ \A i \in 1 .. Len(messages) : messages'[i] = messages[i]
        /\ messages'[Len(messages) + 1] = User(q)
    BY <1>0, <2>1, AppendProperties, LenProperties
  <2>3. Last(messages').role # "assistant"
    BY <2>2 DEF Last, User
  <2>4. ASSUME NEW i \in DOMAIN messages', messages'[i].role = "assistant"
        PROVE  handler'[messages'[i].of] = "returned"
    <3>1. i \in 1 .. Len(messages)
      BY <1>0, <2>2, <2>4 DEF User
    <3>2. messages'[i] = messages[i] /\ handler[messages[i].of] = "returned"
      BY <1>0, <2>2, <2>4, <3>1, LenProperties DEF Answered
    <3> QED BY <1>0, <1>t, <3>1, <3>2, ReturnedStays
  <2> QED BY <2>3, <2>4 DEF Answered
<1>2. ASSUME NEW q \in Questions, StreamEnds(q)
      PROVE  Answered'
  <2> DEFINE a == Assistant(q, streamingBuffer)
  <2>1. messages' = Append(messages, a) /\ handler[q] = "returned"
    BY <1>2, AnswerAdded
  <2>2. a \in Message /\ a.of = q
    BY <1>0, MessageType DEF TypeOK, Chunk, Assistant
  <2> HIDE DEF a
  <2>3. /\ Len(messages') = Len(messages) + 1 /\ DOMAIN messages' = 1 .. Len(messages) + 1
        /\ \A i \in 1 .. Len(messages) : messages'[i] = messages[i]
        /\ messages'[Len(messages) + 1] = a
    BY <1>0, <2>1, <2>2, AppendProperties, LenProperties
  <2>4. ASSUME NEW i \in DOMAIN messages', messages'[i].role = "assistant"
        PROVE  handler'[messages'[i].of] = "returned"
    <3>1. CASE i = Len(messages) + 1
      BY <1>0, <2>1, <2>2, <2>3, <3>1, ReturnedStays
    <3>2. CASE i \in 1 .. Len(messages)
      <4>1. messages'[i] = messages[i] /\ handler[messages[i].of] = "returned"
        BY <1>0, <2>3, <2>4, <3>2, LenProperties DEF Answered
      <4> QED BY <1>0, <1>t, <3>2, <4>1, ReturnedStays
    <3> QED BY <1>0, <2>3, <3>1, <3>2
  <2>5. ASSUME Len(messages') > 1
        PROVE  /\ Last(messages').of = q
               /\ messages' = Exchange(q)' /\ conversationId' = request'[q].conversation
    <3>1. messages # <<>>
      BY <1>0, <2>3, <2>5, EmptySeq
    <3>2. messages' = Exchange(q) /\ conversationId = request[q].conversation
      BY <1>2, <3>1, AnswerAdded
    <3>3. Last(messages') = a
      BY <2>3 DEF Last
    <3>4. conversationId' = conversationId
      BY <1>2 DEF StreamEnds
    <3> QED BY <1>0, <2>1, <2>2, <3>2, <3>3, <3>4, ReturnedStays
  <2> QED BY <2>4, <2>5 DEF Answered
<1>3. CASE UNCHANGED <<messages, conversationId>>
  <2>1. ASSUME NEW i \in DOMAIN messages, messages[i].role = "assistant"
        PROVE  handler'[messages[i].of] = "returned"
    BY <1>0, <1>t, <2>1, ReturnedStays, LenProperties DEF Answered
  <2>2. ASSUME Len(messages) > 1, Last(messages).role = "assistant"
        PROVE  \E q \in Questions :
                  /\ Last(messages).of = q
                  /\ messages = Exchange(q)' /\ conversationId = request'[q].conversation
    <3>1. PICK q : q = Last(messages).of
      OBVIOUS
    <3>2. Len(messages) \in DOMAIN messages
      BY <1>0, <2>2, LenProperties
    <3>3. q \in Questions /\ handler[q] = "returned"
      BY <1>0, <1>t, <2>2, <3>1, <3>2, LenProperties DEF Answered, Last
    <3>4. messages = Exchange(q) /\ conversationId = request[q].conversation
      BY <1>0, <2>2, <3>1 DEF Answered
    <3>5. request'[q] = request[q] /\ Exchange(q)' = Exchange(q)
      BY <1>0, <3>3, ReturnedStays
    <3> QED BY <3>1, <3>3, <3>4, <3>5
  <2> QED BY <1>3, <2>1, <2>2 DEF Answered
<1>4. CASE messages' = <<>>
  BY <1>4 DEF Answered
<1> QED BY <1>0, <1>1, <1>2, <1>3, <1>4, MessagesStep

-----------------------------------------------------------------------------
(***************************************************************************)
(* Rows.                                                                   *)
(***************************************************************************)
LEMMA WithinNothing ==
    ASSUME NEW t \in Seq(Message)
    PROVE  Within(<<>>, t)
<1> DEFINE f == [i \in {} |-> 1]
<1>1. DOMAIN (<<>>) = {}
  BY EmptySeq
<1>2. f \in [DOMAIN (<<>>) -> DOMAIN t]
  BY <1>1
<1> QED BY <1>1, <1>2 DEF Within

\* Another row at the end changes nothing,
LEMMA WithinGrows ==
    ASSUME NEW s \in Seq(Message), NEW t \in Seq(Message), NEW e \in Message, Within(s, t)
    PROVE  Within(s, Append(t, e))
<1>1. PICK f \in [DOMAIN s -> DOMAIN t] :
          /\ \A i \in DOMAIN s : t[f[i]] = s[i]
          /\ \A i, j \in DOMAIN s : i < j => f[i] < f[j]
  BY DEF Within
<1>2. /\ Append(t, e) \in Seq(Message)
      /\ DOMAIN t = 1 .. Len(t) /\ Len(t) \in Nat
      /\ DOMAIN Append(t, e) = 1 .. Len(t) + 1
      /\ \A i \in 1 .. Len(t) : Append(t, e)[i] = t[i]
  BY AppendProperties, LenProperties
<1>3. \A i \in 1 .. Len(t) : i \in 1 .. Len(t) + 1
  BY <1>2
<1>4. f \in [DOMAIN s -> DOMAIN Append(t, e)]
  BY <1>1, <1>2, <1>3
<1>5. \A i \in DOMAIN s : Append(t, e)[f[i]] = s[i]
  BY <1>1, <1>2
<1> QED BY <1>1, <1>4, <1>5 DEF Within

\* and the next message as a row continues what is stored.
LEMMA WithinBoth ==
    ASSUME NEW s \in Seq(Message), NEW t \in Seq(Message), NEW e \in Message, Within(s, t)
    PROVE  Within(Append(s, e), Append(t, e))
<1>1. PICK f \in [DOMAIN s -> DOMAIN t] :
          /\ \A i \in DOMAIN s : t[f[i]] = s[i]
          /\ \A i, j \in DOMAIN s : i < j => f[i] < f[j]
  BY DEF Within
<1>2. /\ DOMAIN t = 1 .. Len(t) /\ Len(t) \in Nat
      /\ DOMAIN Append(t, e) = 1 .. Len(t) + 1
      /\ \A i \in 1 .. Len(t) : Append(t, e)[i] = t[i]
      /\ Append(t, e)[Len(t) + 1] = e
  BY AppendProperties, LenProperties
<1>3. /\ DOMAIN s = 1 .. Len(s) /\ Len(s) \in Nat
      /\ DOMAIN Append(s, e) = 1 .. Len(s) + 1
      /\ \A i \in 1 .. Len(s) : Append(s, e)[i] = s[i]
      /\ Append(s, e)[Len(s) + 1] = e
  BY AppendProperties, LenProperties
<1> DEFINE g == [i \in 1 .. Len(s) + 1 |-> IF i = Len(s) + 1 THEN Len(t) + 1 ELSE f[i]]
<1>4. \A i \in 1 .. Len(s) + 1 : i \in 1 .. Len(s) \/ i = Len(s) + 1
  BY <1>3
<1>5. /\ \A i \in 1 .. Len(s) : g[i] = f[i] /\ g[i] \in 1 .. Len(t)
      /\ g[Len(s) + 1] = Len(t) + 1
  <2>1. \A i \in 1 .. Len(s) : i \in 1 .. Len(s) + 1 /\ i # Len(s) + 1
    BY <1>3
  <2>2. Len(s) + 1 \in 1 .. Len(s) + 1
    BY <1>3
  <2> QED BY <1>1, <1>2, <1>3, <2>1, <2>2
<1>6. g \in [DOMAIN Append(s, e) -> DOMAIN Append(t, e)]
  <2>1. \A i \in 1 .. Len(s) + 1 : g[i] \in 1 .. Len(t) + 1
    BY <1>2, <1>4, <1>5
  <2>2. g \in [1 .. Len(s) + 1 -> 1 .. Len(t) + 1]
    BY <2>1
  <2> QED BY <1>2, <1>3, <2>2
<1> HIDE DEF g
<1>7. \A i \in DOMAIN Append(s, e) : Append(t, e)[g[i]] = Append(s, e)[i]
  BY <1>1, <1>2, <1>3, <1>4, <1>5
<1>8. ASSUME NEW i \in DOMAIN Append(s, e), NEW j \in DOMAIN Append(s, e), i < j
      PROVE  g[i] < g[j]
  <2>1. i \in 1 .. Len(s)
    BY <1>3, <1>8
  <2>2. CASE j = Len(s) + 1
    BY <1>2, <1>5, <2>1, <2>2
  <2>3. CASE j \in 1 .. Len(s)
    BY <1>1, <1>3, <1>5, <1>8, <2>1, <2>3
  <2> QED BY <1>3, <1>4, <2>2, <2>3
<1> QED BY <1>6, <1>7, <1>8 DEF Within

\* Steps of others: rows may be added anywhere.
LEMMA SavedKept ==
    ASSUME TypeOK, OneStream, NEW q \in Questions, Saved(q),
           request'[q] = request[q], received'[q] = received[q],
           handler'[q] = handler[q], todo'[q] = todo[q],
           unsaved \subseteq unsaved', conversations \subseteq conversations',
           \A c \in Conversations : \/ rows'[c] = rows[c]
                                    \/ \E e \in Message : rows'[c] = Append(rows[c], e)
    PROVE  Saved(q)'
<1>1. Exchange(q)' = Exchange(q)
  BY DEF Exchange, Answer
<1>2. ASSUME handler[q] \in {"saving", "returned"},
             request[q].conversation # NoConversation, q \notin unsaved
      PROVE  \E n \in 0 .. Len(Exchange(q)) : SavedUpTo(q, n)'
  <2>1. PICK n \in 0 .. Len(Exchange(q)) : SavedUpTo(q, n)
    BY <1>2 DEF Saved
  <2> DEFINE c == request[q].conversation
             s == SubSeq(Exchange(q), 1, n)
  <2>2. c \in Conversations /\ rows[c] \in Seq(Message)
    BY <1>2 DEF TypeOK
  <2>3. s \in Seq(Message)
    <3>1. Exchange(q) \in Seq(Message) /\ \A i \in 1 .. n : Exchange(q)[i] \in Message
      BY ExchangeType, ElementOfSeq
    <3> QED BY <3>1, SubSeqProperties
  <2>4. Within(s, rows[c])
    BY <2>1 DEF SavedUpTo
  <2>5. Within(s, rows'[c])
    <3> HIDE DEF c, s
    <3> QED BY <2>2, <2>3, <2>4, WithinGrows
  <2>6. SavedUpTo(q, n)'
    BY <1>1, <2>1, <2>5 DEF SavedUpTo
  <2> QED BY <2>1, <2>6
<1> QED BY <1>1, <1>2 DEF Saved

\* Opening a conversation starts the save at the first message of the exchange.
LEMMA SavedOpens ==
    ASSUME TypeOK, OneStream, [Next]_vars, NEW q \in Questions, Saved(q), OpenConversation(q)
    PROVE  Saved(q)'
<1>1. handler[q] = "opening" /\ request[q].conversation # NoConversation /\ todo[q] = <<>>
  BY DEF OpenConversation, Goto, Saved
<1>2. request'[q] = request[q] /\ Exchange(q)' = Exchange(q)
  BY <1>1, ExchangeStays
<1>3. CASE /\ Goto(q, "opening", "saving")
           /\ conversations' = conversations \cup {request[q].conversation}
           /\ todo' = [todo EXCEPT ![q] = Exchange(q)]
           /\ UNCHANGED <<rows, unsaved>>
  <2> DEFINE E == Exchange(q)
  <2>1. E \in Seq(Message) /\ Len(E) \in Nat
    BY ExchangeType, LenProperties
  <2>2. SubSeq(E, 0 + 1, Len(E)) = E /\ SubSeq(E, 1, 0) = <<>>
    BY <2>1, SubSeqFull, SubSeqEmpty
  <2>3. /\ handler'[q] = "saving" /\ todo'[q] = E /\ rows' = rows
        /\ request[q].conversation \in conversations'
    BY <1>3 DEF Goto, TypeOK
  <2>4. request[q].conversation \in Conversations
    BY <1>1 DEF TypeOK
  <2>5. Within(<<>>, rows'[request[q].conversation])
    BY <2>3, <2>4, WithinNothing DEF TypeOK
  <2> HIDE DEF E
  <2>6. todo'[q] = SubSeq(E, 0 + 1, Len(E)) /\ SubSeq(E, 1, 0) = <<>>
    BY <2>2, <2>3
  <2>7. SavedUpTo(q, 0)'
    BY <1>2, <2>5, <2>6 DEF SavedUpTo, E
  <2>8. 0 \in 0 .. Len(E)
    BY <2>1
  <2> QED BY <1>1, <1>2, <2>3, <2>7, <2>8 DEF Saved, E
<1>4. CASE /\ Goto(q, "opening", "returned")
           /\ unsaved' = unsaved \cup {q}
           /\ UNCHANGED <<todo, rows>>
  <2>1. handler'[q] = "returned" /\ q \in unsaved' /\ todo'[q] = <<>>
    BY <1>1, <1>4 DEF Goto, TypeOK
  <2> QED BY <2>1 DEF Saved
<1> QED BY <1>3, <1>4 DEF OpenConversation, Exchange

\* The next message becomes a row, or the exchange is not fully saved.
LEMMA SavedInserts ==
    ASSUME TypeOK, OneStream, [Next]_vars, NEW q \in Questions, Saved(q), InsertMessage(q)
    PROVE  Saved(q)'
<1> DEFINE E == Exchange(q)
           c == request[q].conversation
<1>1. /\ handler[q] = "saving" /\ handler' = handler /\ conversations' = conversations
      /\ todo[q] # <<>> /\ todo'[q] = Tail(todo[q])
      /\ c # NoConversation /\ c \in conversations
  BY DEF InsertMessage, Saved, TypeOK
<1>2. request'[q] = request[q] /\ Exchange(q)' = Exchange(q)
  BY <1>1, ExchangeStays
<1>3. CASE unsaved' = unsaved \cup {q}
  BY <1>1, <1>2, <1>3 DEF Saved
<1>4. CASE rows' = [rows EXCEPT ![c] = Append(@, Head(todo[q]))] /\ unsaved' = unsaved
  <2>1. ASSUME q \notin unsaved
        PROVE  \E n \in 0 .. Len(E) : SavedUpTo(q, n)'
    <3>1. PICK n \in 0 .. Len(E) : SavedUpTo(q, n)
      BY <1>1, <2>1 DEF Saved
    <3>2. E \in Seq(Message) /\ Len(E) \in Nat
      BY ExchangeType, LenProperties
    <3>3. todo[q] = SubSeq(E, n + 1, Len(E)) /\ Within(SubSeq(E, 1, n), rows[c])
      BY <3>1 DEF SavedUpTo
    <3> HIDE DEF E
    <3>4. n # Len(E)
      BY <1>1, <3>2, <3>3, SubSeqEmpty
    <3> DEFINE k == n + 1
               e == E[k]
               s == SubSeq(E, 1, n)
    <3>5. k \in 1 .. Len(E) /\ Len(E) \in k .. Len(E) /\ 1 \in 1 .. Len(E) /\ k - 1 = n
      BY <3>1, <3>2, <3>4
    <3>6. Head(todo[q]) = e /\ Tail(todo[q]) = SubSeq(E, k + 1, Len(E))
      <4> HIDE DEF k
      <4>1. /\ Head(SubSeq(E, k, Len(E))) = E[k]
            /\ Tail(SubSeq(E, k, Len(E))) = SubSeq(E, k + 1, Len(E))
        BY <3>2, <3>5, HeadTailOfSubSeq
      <4> QED BY <3>3, <4>1 DEF k
    <3>7. e \in Message /\ s \in Seq(Message)
      <4>1. \A i \in 1 .. Len(E) : E[i] \in Message
        BY <3>2, ElementOfSeq
      <4>2. \A i \in 1 .. n : E[i] \in Message
        BY <3>1, <3>2, <4>1
      <4>3. s \in Seq(Message)
        BY <3>1, <4>2, SubSeqProperties
      <4> QED BY <3>5, <4>1, <4>3
    <3>8. SubSeq(E, 1, k) = Append(s, e)
      <4> HIDE DEF k
      <4>1. SubSeq(E, 1, k) = SubSeq(E, 1, k - 1) \o <<E[k]>>
        BY <3>2, <3>5, SubSeqRecursiveSecond
      <4>2. Append(s, e) = s \o <<e>>
        BY <3>7, AppendIsConcat
      <4> QED BY <3>5, <4>1, <4>2
    <3>9. c \in Conversations /\ rows[c] \in Seq(Message) /\ rows'[c] = Append(rows[c], e)
      BY <1>1, <1>4, <3>6 DEF TypeOK
    <3> HIDE DEF c, e, s, k
    <3>10. Within(Append(s, e), rows'[c])
      <4>1. Within(s, rows[c])
        BY <3>3 DEF s
      <4> QED BY <3>7, <3>9, <4>1, WithinBoth
    <3>11. SavedUpTo(q, k)'
      BY <1>1, <1>2, <3>6, <3>8, <3>10 DEF SavedUpTo, E, c
    <3> QED BY <3>5, <3>11
  <2> QED BY <1>1, <1>2, <1>4, <2>1 DEF Saved
<1> QED BY <1>3, <1>4 DEF InsertMessage

\* Steps of a question that has nothing to save, or nothing more.
LEMMA SavedSteps ==
    ASSUME TypeOK, OneStream, Asked, [Next]_vars, NEW q \in Questions, Saved(q),
           \/ SendMessage(q)
           \/ Refuse(q) \/ StreamFails(q) \/ StreamBegins(q) \/ Relay(q) \/ RelayEnds(q)
           \/ Return(q)
    PROVE  Saved(q)'
<1>1. CASE SendMessage(q)
  <2>1. handler'[q] = "deciding" /\ todo'[q] = <<>>
    BY <1>1, Sent DEF SendMessage, database, Saved, IsNext
  <2> QED BY <2>1 DEF Saved
<1>2. CASE Refuse(q) \/ StreamBegins(q) \/ Relay(q)
  <2>1. handler'[q] \in {"failed", "relaying"} /\ todo'[q] = <<>>
    BY <1>2 DEF Refuse, StreamBegins, Relay, Goto, database, Saved, TypeOK
  <2> QED BY <2>1 DEF Saved
<1>3. CASE StreamFails(q)
  <2>1. handler'[q] = "returned" /\ q \in unsaved' /\ todo'[q] = <<>>
    BY <1>3 DEF StreamFails, Goto, Saved, TypeOK
  <2> QED BY <2>1 DEF Saved
<1>4. CASE RelayEnds(q)
  <2>1. /\ handler'[q] = IF request[q].conversation = NoConversation
                           THEN "returned" ELSE "opening"
        /\ request' = request /\ todo'[q] = <<>>
    BY <1>4 DEF RelayEnds, Goto, database, Saved, TypeOK
  <2> QED BY <2>1 DEF Saved
<1>5. CASE Return(q)
  <2>1. /\ handler[q] = "saving" /\ handler'[q] = "returned" /\ todo'[q] = <<>>
        /\ todo' = todo /\ rows' = rows /\ request' = request /\ received' = received
        /\ unsaved' = unsaved
    BY <1>5 DEF Return, Goto, database, TypeOK
  <2>2. Exchange(q)' = Exchange(q)
    BY <2>1 DEF Exchange, Answer
  <2>3. ASSUME NEW n \in 0 .. Len(Exchange(q)), SavedUpTo(q, n)
        PROVE  SavedUpTo(q, n)'
    BY <2>1, <2>2, <2>3 DEF SavedUpTo
  <2> QED BY <2>1, <2>2, <2>3 DEF Saved
<1> QED BY <1>1, <1>2, <1>3, <1>4, <1>5

\* The tables change only by the insert of the next row of a save.
LEMMA RowsStep ==
    ASSUME TypeOK, [Next]_vars
    PROVE  \/ UNCHANGED rows
           \/ \E q \in Questions :
                 /\ handler[q] = "saving" /\ conversations' = conversations
                 /\ todo[q] # <<>>
                 /\ rows' = [rows EXCEPT ![request[q].conversation] = Append(@, Head(todo[q]))]
<1>1. ASSUME NEW q \in Questions, InsertMessage(q)
      PROVE  \/ UNCHANGED rows
             \/ /\ handler[q] = "saving" /\ conversations' = conversations
                /\ todo[q] # <<>>
                /\ rows' = [rows EXCEPT ![request[q].conversation] = Append(@, Head(todo[q]))]
  BY <1>1 DEF InsertMessage
<1>2. \/ \E q \in Questions : InsertMessage(q)
      \/ UNCHANGED rows
  BY DEF Next, Reads, ReadLine, StreamEnds, Throws, NewConversation, SendMessage, Chat,
         Refuse, StreamFails, StreamBegins, Relay, RelayEnds, OpenConversation, Return,
         Crash, vars, database
<1> QED BY <1>1, <1>2

\* Every step keeps what is stored of the exchanges.
LEMMA SavedNext ==
    ASSUME TypeOK, OneStream, Asked, SavedSoFar, [Next]_vars
    PROVE  SavedSoFar'
<1>1. conversations \subseteq conversations' /\ unsaved \subseteq unsaved'
  BY DEF Next, Reads, ReadLine, StreamEnds, Throws, NewConversation, SendMessage, Chat,
         Refuse, StreamFails, StreamBegins, Relay, RelayEnds, OpenConversation,
         InsertMessage, Return, Crash, vars, database
<1>2. ASSUME NEW c \in Conversations, rows'[c] # <<>>
      PROVE  c \in conversations'
  BY <1>1, <1>2, RowsStep DEF SavedSoFar, Saved, TypeOK
<1>3. \A c \in Conversations : \/ rows'[c] = rows[c]
                               \/ \E e \in Message : rows'[c] = Append(rows[c], e)
  <2>1. \A q \in Questions : todo[q] # <<>> => Head(todo[q]) \in Message
    BY HeadTailProperties DEF TypeOK
  <2>2. ASSUME NEW q \in Questions, todo[q] # <<>>,
               rows' = [rows EXCEPT ![request[q].conversation] = Append(@, Head(todo[q]))],
               NEW c \in Conversations
        PROVE  rows'[c] = rows[c] \/ \E e \in Message : rows'[c] = Append(rows[c], e)
    <3>1. rows'[c] = rows[c] \/ rows'[c] = Append(rows[c], Head(todo[q]))
      BY <2>2 DEF TypeOK
    <3> QED BY <2>1, <2>2, <3>1
  <2> QED BY <2>2, RowsStep
<1>4. ASSUME NEW q \in Questions
      PROVE  Saved(q)'
  <2>1. Saved(q)
    BY DEF SavedSoFar
  <2>2. CASE \/ SendMessage(q)
             \/ Refuse(q) \/ StreamFails(q) \/ StreamBegins(q) \/ Relay(q) \/ RelayEnds(q)
             \/ Return(q)
    BY <2>1, <2>2, SavedSteps
  <2>3. CASE OpenConversation(q) \/ InsertMessage(q)
    BY <2>1, <2>3, SavedOpens, SavedInserts
  <2>4. CASE Crash
    <3>1. /\ handler'[q] = "returned" => handler[q] = "returned"
          /\ handler'[q] \in {"none", "returned", "failed"}
          /\ todo'[q] = <<>> /\ rows' = rows /\ request' = request /\ received' = received
          /\ unsaved' = unsaved
      BY <2>4 DEF Crash
    <3>2. Exchange(q)' = Exchange(q)
      BY <3>1 DEF Exchange, Answer
    <3>3. ASSUME NEW n \in 0 .. Len(Exchange(q)), SavedUpTo(q, n), handler'[q] = "returned"
          PROVE  SavedUpTo(q, n)'
      <4>1. todo[q] = <<>>
        BY <2>1, <3>1, <3>3 DEF Saved
      <4> QED BY <3>1, <3>2, <3>3, <4>1 DEF SavedUpTo
    <3> QED BY <2>1, <3>1, <3>2, <3>3 DEF Saved
  <2>5. CASE /\ request'[q] = request[q] /\ received'[q] = received[q]
             /\ handler'[q] = handler[q] /\ todo'[q] = todo[q]
    BY <1>1, <1>3, <2>1, <2>5, SavedKept
  <2>6. ASSUME NEW p \in Questions \ {q}, SendMessage(p)
        PROVE  /\ request'[q] = request[q] /\ received'[q] = received[q]
               /\ handler'[q] = handler[q] /\ todo'[q] = todo[q]
    BY <2>6, Sent DEF SendMessage, database
  <2>7. ASSUME NEW p \in Questions \ {q}, Chat(p)
        PROVE  /\ request'[q] = request[q] /\ received'[q] = received[q]
               /\ handler'[q] = handler[q] /\ todo'[q] = todo[q]
    BY <2>7 DEF Chat, Refuse, StreamFails, StreamBegins, Relay, RelayEnds, OpenConversation,
                InsertMessage, Return, Goto, TypeOK, database
  <2>8. \/ SendMessage(q) \/ Chat(q) \/ Crash
        \/ \E p \in Questions \ {q} : SendMessage(p) \/ Chat(p)
        \/ UNCHANGED <<request, received, handler, todo>>
    BY DEF Next, Reads, ReadLine, StreamEnds, Throws, NewConversation, vars, database
  <2> QED BY <2>2, <2>3, <2>4, <2>5, <2>6, <2>7, <2>8 DEF Chat
<1> QED BY <1>2, <1>4 DEF SavedSoFar

-----------------------------------------------------------------------------
(***************************************************************************)
(* The inductive invariant and what follows from it.                       *)
(***************************************************************************)
LEMMA InvInit == Init => Inv
<1> SUFFICES ASSUME Init
             PROVE  Inv
  OBVIOUS
<1>1. OneStream /\ BufferIsOneAnswer
  BY DEF Init, OneStream, BufferIsOneAnswer
<1>2. Asked /\ Answered
  BY DEF Init, Asked, Answered
<1>3. SavedSoFar
  BY DEF Init, SavedSoFar, Saved
<1> QED BY <1>1, <1>2, <1>3, TypeInit DEF Inv

\* Every step keeps the invariant.
LEMMA InvNext == Inv /\ [Next]_vars => Inv'
<1> SUFFICES ASSUME Inv, [Next]_vars
             PROVE  Inv'
  OBVIOUS
<1>1. TypeOK /\ OneStream /\ BufferIsOneAnswer /\ Asked /\ SavedSoFar
  BY DEF Inv
<1> QED BY <1>1, TypeNext, StreamNext, BufferNext, AskedNext, AnsweredNext, SavedNext
        DEF Inv

\* The app reads one response at a time and shows a run of its chunks, what a
\* question was sent with is what is shown, and of every exchange a beginning
\* is stored, whatever is cut, refused, begun anew or crashes.
THEOREM Invariance == Spec => []Inv
  BY InvInit, InvNext, PTL DEF Spec

\* Answers stand under their questions and are all that the gateway received.
THEOREM InPlace == Spec => []AnswersInPlace
<1>1. Init => AnswersInPlace
  BY DEF Init, AnswersInPlace
<1>2. ASSUME Inv, AnswersInPlace, [Next]_vars
      PROVE  AnswersInPlace'
  <2>0. /\ TypeOK /\ OneStream /\ Answered
        /\ messages \in Seq(Message) /\ Len(messages) \in Nat /\ DOMAIN messages = 1 .. Len(messages)
    BY <1>2, LenProperties DEF Inv, TypeOK
  <2> DEFINE Placed(i) ==
                LET answer == messages[i]
                    all    == Answer(answer.of, received[answer.of])
                IN  answer.role = "assistant" =>
                        IF i = 1 THEN IsSuffix(answer.content, all)
                        ELSE /\ messages[i - 1] = User(answer.of)
                             /\ answer.content = all
  <2>1. ASSUME NEW i \in 1 .. Len(messages), messages'[i] = messages[i],
               i # 1 => messages'[i - 1] = messages[i - 1]
        PROVE  Placed(i)'
    <3>1. PICK q : q = messages[i].of
      OBVIOUS
    <3>2. q \in Questions
      <4>1. \A x \in Message : x.of \in Questions
        BY DEF Message
      <4> QED BY <2>0, <3>1, <4>1, ElementOfSeq
    <3>3. ASSUME messages[i].role = "assistant"
          PROVE  Answer(q, received[q])' = Answer(q, received[q])
      BY <1>2, <2>0, <3>1, <3>2, <3>3, ReturnedStays DEF Answered
    <3>4. Placed(i)
      BY <1>2, <2>0 DEF AnswersInPlace
    <3>5. User(q)' = User(q)
      BY DEF User
    <3> QED BY <2>1, <3>1, <3>3, <3>4, <3>5
  <2>2. ASSUME NEW q \in Questions, SendMessage(q)
        PROVE  AnswersInPlace'
    <3>1. messages' = Append(messages, User(q)) /\ User(q) \in Message
      BY <2>0, <2>2, Sent, MessageType
    <3>2. /\ DOMAIN messages' = 1 .. Len(messages) + 1
          /\ \A i \in 1 .. Len(messages) : messages'[i] = messages[i]
          /\ messages'[Len(messages) + 1] = User(q)
      BY <2>0, <3>1, AppendProperties, LenProperties
    <3>3. ASSUME NEW i \in 1 .. Len(messages)
          PROVE  Placed(i)'
      <4>1. i # 1 => i - 1 \in 1 .. Len(messages)
        BY <2>0
      <4> QED BY <2>1, <3>2, <4>1
    <3>4. PICK k : k = Len(messages) + 1
      OBVIOUS
    <3>5. User(q).role # "assistant"
      BY DEF User
    <3>6. Placed(k)'
      BY <3>2, <3>4, <3>5
    <3>7. \A i \in DOMAIN messages' : i \in 1 .. Len(messages) \/ i = k
      BY <2>0, <3>2, <3>4
    <3> QED BY <3>3, <3>6, <3>7 DEF AnswersInPlace
  <2>3. ASSUME NEW q \in Questions, StreamEnds(q)
        PROVE  AnswersInPlace'
    <3> DEFINE a == Assistant(q, streamingBuffer)
    <3>1. messages' = Append(messages, a) /\ a \in Message /\ a.of = q
          /\ a.content = streamingBuffer
      BY <1>2, <2>0, <2>3, AnswerAdded, MessageType DEF TypeOK, Chunk, Assistant
    <3> HIDE DEF a
    <3>2. /\ DOMAIN messages' = 1 .. Len(messages) + 1
          /\ \A i \in 1 .. Len(messages) : messages'[i] = messages[i]
          /\ messages'[Len(messages) + 1] = a
      BY <2>0, <3>1, AppendProperties, LenProperties
    <3>3. ASSUME NEW i \in 1 .. Len(messages)
          PROVE  Placed(i)'
      <4>1. i # 1 => i - 1 \in 1 .. Len(messages)
        BY <2>0
      <4> QED BY <2>1, <3>2, <4>1
    <3>4. Answer(q, received[q])' = Answer(q, received[q])
      BY <1>2, <2>0, <2>3, AnswerAdded, ReturnedStays
    <3>5. PICK k : k = Len(messages) + 1
      OBVIOUS
    <3>6. Placed(k)'
      <4>1. CASE messages = <<>>
        <5>1. k = 1
          BY <3>5, <4>1
        <5>2. IsSuffix(streamingBuffer, Answer(q, received[q]))
          BY <1>2, <2>0, <2>3, AnswerAdded, ChunksSuffix DEF TypeOK
        <5> QED BY <3>1, <3>2, <3>4, <3>5, <5>1, <5>2
      <4>2. CASE messages # <<>>
        <5>1. /\ Len(messages) # 0 /\ Len(messages) \in 1 .. Len(messages)
              /\ k # 1 /\ k - 1 = Len(messages)
          BY <2>0, <3>5, <4>2, EmptySeq
        <5>2. messages[Len(messages)] = User(q) /\ streamingBuffer = Answer(q, received[q])
          BY <1>2, <2>3, <4>2, AnswerAdded DEF Last
        <5>3. messages'[k - 1] = User(q) /\ User(q)' = User(q)
          BY <3>2, <5>1, <5>2 DEF User
        <5> QED BY <3>1, <3>2, <3>4, <3>5, <5>1, <5>2, <5>3
      <4> QED BY <4>1, <4>2
    <3>7. \A i \in DOMAIN messages' : i \in 1 .. Len(messages) \/ i = k
      BY <2>0, <3>2, <3>5
    <3> QED BY <3>3, <3>6, <3>7 DEF AnswersInPlace
  <2>4. CASE UNCHANGED messages
    <3>1. \A i \in 1 .. Len(messages) : Placed(i)'
      BY <2>1, <2>4
    <3> QED BY <2>0, <2>4, <3>1 DEF AnswersInPlace
  <2>5. CASE messages' = <<>>
    BY <2>5 DEF AnswersInPlace
  <2> QED BY <1>2, <2>0, <2>2, <2>3, <2>4, <2>5, MessagesStep
<1> QED BY <1>1, <1>2, Invariance, PTL DEF Spec

\* What the app shows when an answer has come is in the database, in order.
THEOREM Stored == Spec => []HistoryStored
<1>1. ASSUME Inv
      PROVE  HistoryStored
  <2> SUFFICES ASSUME Len(messages) > 1, Last(messages).role = "assistant",
                      Last(messages).of \notin unsaved, conversationId # NoConversation
               PROVE  Within(messages, rows[conversationId])
    BY DEF HistoryStored
  <2>0. /\ TypeOK /\ Answered /\ SavedSoFar
        /\ messages \in Seq(Message) /\ Len(messages) \in Nat
        /\ DOMAIN messages = 1 .. Len(messages)
    BY <1>1, LenProperties DEF Inv, TypeOK
  <2>1. PICK q : q = Last(messages).of
    OBVIOUS
  <2>2. q \in Questions /\ handler[q] = "returned"
    <3>1. \A x \in Message : x.of \in Questions
      BY DEF Message
    <3>2. Len(messages) \in 1 .. Len(messages)
      BY <2>0
    <3>3. messages[Len(messages)] \in Message
      BY <2>0, <3>2, ElementOfSeq
    <3> QED BY <2>0, <2>1, <3>1, <3>2, <3>3 DEF Answered, Last
  <2>3. messages = Exchange(q) /\ conversationId = request[q].conversation
    BY <2>0, <2>1 DEF Answered
  <2>4. /\ Saved(q) /\ todo[q] = <<>>
        /\ \E n \in 0 .. Len(Exchange(q)) : SavedUpTo(q, n)
    BY <2>0, <2>1, <2>2, <2>3 DEF SavedSoFar, Saved
  <2>5. PICK n \in 0 .. Len(messages) : SavedUpTo(q, n)
    BY <2>3, <2>4
  <2>6. /\ SubSeq(messages, n + 1, Len(messages)) = <<>>
        /\ Within(SubSeq(messages, 1, n), rows[conversationId])
    BY <2>3, <2>4, <2>5 DEF SavedUpTo
  <2>7. n = Len(messages)
    <3> DEFINE l == Len(messages)
               k == n + 1
    <3>1. l \in Nat /\ n \in 0 .. l
      BY <2>0
    <3>2. \A i \in 1 .. l : messages[i] \in Message
      BY <2>0, ElementOfSeq
    <3> HIDE DEF l
    <3>3. k \in Int /\ l \in Int /\ \A i \in k .. l : messages[i] \in Message
      BY <3>1, <3>2
    <3> HIDE DEF k
    <3>4. Len(SubSeq(messages, k, l)) = IF k <= l THEN l - k + 1 ELSE 0
      BY <3>3, SubSeqProperties
    <3>5. SubSeq(messages, k, l) = <<>>
      BY <2>6 DEF k, l
    <3>6. ~(k <= l)
      BY <3>3, <3>4, <3>5, EmptySeq
    <3>7. n = l
      BY <3>1, <3>6 DEF k
    <3> QED BY <3>7 DEF l
  <2>8. SubSeq(messages, 1, Len(messages)) = messages
    BY <2>0, SubSeqFull
  <2> QED BY <2>6, <2>7, <2>8
<1> QED BY <1>1, Invariance, PTL
=============================================================================
