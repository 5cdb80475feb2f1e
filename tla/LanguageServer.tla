--------------------------- MODULE LanguageServer ---------------------------
(* The language server: an editor, the two pipes between them, and the three  *)
(* threads of the server process (lsp/transport.rs, server.rs, document.rs,   *)
(* raw_params.rs). The reader thread takes messages off stdin, the main       *)
(* thread handles them one at a time, the writer thread puts the replies on   *)
(* stdout; two channels, which have no limit, join them. When the main thread *)
(* returns the process ends, whatever the other two were doing.               *)
(*                                                                            *)
(* A text is a sequence of characters and a range a pair of offsets in it. A  *)
(* language feature is a request whose answer depends on the text of one      *)
(* document; the answer carries that text. The editor speaks the protocol:    *)
(* its edits lie within its text. It may close either pipe, and its last      *)
(* message may be cut off.                                                    *)
EXTENDS Naturals, SequencesExt

CONSTANTS
  Uris,
  NoText,        \* the text of a document that is not open
  NoRange,       \* a change of the whole text
  Messages,      \* what the editor may say (ids are given when it is said)
  MaxSent        \* bound: messages the editor sends

VARIABLES
  text,          \* the editor: [Uris -> texts \cup {NoText}]
  owed,          \* the answers the editor must get, in order
  heard, due,    \* both, by the server's reading of the editor's messages (history)
  sent,          \* messages sent so far, the number of the last
  told,          \* the editor has asked the server to shut down
  stdin,         \* the messages in the pipe
  stdin_end,     \* "open", "closed" after a message, or "cut" within one
  stdout_open,   \* the editor still reads
  stdout,        \* what it was written
  reader, writer,  \* "on" until the thread breaks out of its loop
  incoming, outgoing,  \* the channels
  documents,     \* DocumentStore: [Uris -> texts \cup {NoText}]
  state,         \* LanguageServer.state
  main           \* the main thread: "serving", "returned"; "ended" with the process

client == <<text, owed, heard, due, sent, told, stdin_end, stdout_open>>
vars == <<client, stdin, stdout, reader, writer, incoming, outgoing, documents, state, main>>

Msg(method, uri, changes) == [method |-> method, uri |-> uri, changes |-> changes, id |-> 0]
Change(range, new) == [range |-> range, text |-> new]

\* The editor tells whole texts of a document it opens; a change has at least one edit.
ASSUME MessageAssumption ==
  \A m \in Messages :
    /\ m = Msg(m.method, m.uri, m.changes) /\ m.uri \in Uris
    /\ m.method = "didOpen" => m.changes = <<Change(NoRange, m.changes[1].text)>>
    /\ m.method = "didChange" => m.changes # <<>>

Requests == {"query", "unknown", "initialize", "shutdown", "badParams", "badJson"}

\* A text after one edit of the editor's.
Edited(old, c) ==
  IF c.range = NoRange THEN c.text
  ELSE SubSeq(old, 1, c.range[1]) \o c.text \o SubSeq(old, c.range[2] + 1, Len(old))

\* The text after each of the editor's changes, in their order.
Edits(old, changes) ==
  LET after[n \in 0..Len(changes)] ==
        IF n = 0 THEN old ELSE Edited(after[n-1], changes[n])
  IN after

Within(old, c) ==
  c.range # NoRange => c.range[1] <= c.range[2] /\ c.range[2] <= Len(old)

Out(op, id, uri, t) == [op |-> op, id |-> id, uri |-> uri, text |-> t]

\* What of s are answers.
Answers(s) ==
  LET kept[n \in 0..Len(s)] ==
        IF n = 0 THEN <<>>
        ELSE IF s[n].op = "diagnostics" THEN kept[n-1] ELSE Append(kept[n-1], s[n])
  IN kept[Len(s)]

Init ==
  /\ text = [u \in Uris |-> NoText] /\ documents = text
  /\ heard = text /\ due = <<>>
  /\ owed = <<>> /\ sent = 0 /\ told = FALSE
  /\ stdin = <<>> /\ stdin_end = "open" /\ stdout_open = TRUE /\ stdout = <<>>
  /\ reader = "on" /\ writer = "on"
  /\ incoming = <<>> /\ outgoing = <<>>
  /\ state = "Uninitialized" /\ main = "serving"

-----------------------------------------------------------------------------
(* The editor.                                                                *)

\* The answer to m of one that holds the texts d.
Due(d, m) ==
  CASE m.method = "query" -> <<Out("result", m.id, m.uri, d[m.uri])>>
    [] m.method \in {"initialize", "shutdown"} -> <<Out("result", m.id, m.uri, NoText)>>
    [] m.method \in {"unknown", "badParams", "badJson"} -> <<Out("error", m.id, m.uri, NoText)>>
    [] OTHER -> <<>>

\* What m makes of the texts d for one that takes a change for the text of its first edit.
Effect(d, m) ==
  CASE m.method = "didOpen" \/ (m.method = "didChange" /\ d[m.uri] # NoText) ->
         [d EXCEPT ![m.uri] = m.changes[1].text]
    [] m.method = "didClose" -> [d EXCEPT ![m.uri] = NoText]
    [] OTHER -> d

Say(m) ==
  /\ stdin_end = "open" /\ sent < MaxSent /\ main # "ended" /\ ~told
  /\ m.method = "didOpen" => text[m.uri] = NoText
  /\ m.method \in {"didChange", "didSave", "didClose"} => text[m.uri] # NoText
  /\ m.method = "didChange" =>
       \A i \in DOMAIN m.changes :
         Within(Edits(text[m.uri], m.changes)[i-1], m.changes[i])
  /\ sent' = sent + 1
  /\ told' = (m.method = "shutdown")
  /\ LET said == [m EXCEPT !.id = IF m.method \in Requests THEN sent' ELSE 0]
     IN /\ stdin' = Append(stdin, said)
        /\ owed' = owed \o Due(text, said)
        /\ heard' = Effect(heard, said) /\ due' = due \o Due(heard, said)
  /\ text' = CASE m.method \in {"didOpen", "didChange"} ->
                    [text EXCEPT ![m.uri] = Edits(@, m.changes)[Len(m.changes)]]
               [] m.method = "didClose" -> [text EXCEPT ![m.uri] = NoText]
               [] OTHER -> text
  /\ UNCHANGED <<stdin_end, stdout_open, stdout, reader, writer, incoming, outgoing,
                 documents, state, main>>

\* The editor closes its end of stdin, perhaps within a message, or stops reading.
HangUp ==
  /\ \/ stdin_end = "open" /\ stdin_end' \in {"closed", "cut"} /\ UNCHANGED stdout_open
     \/ stdout_open /\ stdout_open' = FALSE /\ UNCHANGED stdin_end
  /\ UNCHANGED <<text, owed, heard, due, sent, told, stdin, stdout, reader, writer,
                 incoming, outgoing, documents, state, main>>

-----------------------------------------------------------------------------
(* The reader and the writer thread.                                          *)

\* Bug: a body that is not UTF-8 ends the loop as the end of the input does.
ReaderAfterStrict(m) == IF m.method = "badUtf8" THEN "off" ELSE "on"

\* A message that cannot be read is an error the loop goes on after.
ReaderAfter(m) == "on"

\* At the end of the input within a body the loop ends. At its end after a message
\* read_line gives an empty line, which is taken for the end of the headers, and the
\* loop goes on for ever without a step that anyone could see.
read_message ==
  /\ main # "ended" /\ reader = "on"
  /\ \/ /\ stdin # <<>>
        /\ stdin' = Tail(stdin)
        /\ incoming' = IF Head(stdin).method = "badUtf8" THEN incoming
                                                         ELSE Append(incoming, Head(stdin))
        /\ reader' = ReaderAfter(Head(stdin))
     \/ /\ stdin = <<>> /\ stdin_end = "cut"
        /\ reader' = "off"
        /\ UNCHANGED <<stdin, incoming>>
  /\ UNCHANGED <<client, stdout, writer, outgoing, documents, state, main>>

\* A reply that cannot be written ends the loop.
Write ==
  /\ main # "ended" /\ writer = "on" /\ outgoing # <<>>
  /\ outgoing' = Tail(outgoing)
  /\ \/ stdout_open /\ stdout' = Append(stdout, Head(outgoing)) /\ UNCHANGED writer
     \/ ~stdout_open /\ writer' = "off" /\ UNCHANGED stdout
  /\ UNCHANGED <<client, stdin, reader, incoming, documents, state, main>>

-----------------------------------------------------------------------------
(* The main thread. Every message is one turn of the loop of run_server.      *)

Receive(methods) ==
  /\ main = "serving" /\ incoming # <<>> /\ Head(incoming).method \in methods
  /\ incoming' = Tail(incoming)

\* Bug: the server waits for exit, as a client that follows the protocol sends it.
should_shutdownOnExit(m) == m.method = "exit"

should_shutdown(m) == m.method = "shutdown"

\* The replies are sent; the loop ends if they cannot be, or on a shutdown.
Reply(out) ==
  /\ outgoing' = IF writer = "on" THEN outgoing \o out ELSE outgoing
  /\ main' = IF should_shutdown(Head(incoming)) \/ (out # <<>> /\ writer = "off")
             THEN "returned" ELSE main
  /\ UNCHANGED <<client, stdin, stdout, reader, writer>>

Lifecycle ==
  LET m == Head(incoming)
  IN /\ Receive({"initialize", "initialized", "shutdown", "exit"})
     /\ state' = CASE m.method = "initialize"  -> "Initializing"
                   [] m.method = "initialized" -> "Running"
                   [] m.method = "shutdown"    -> "ShuttingDown"
                   [] m.method = "exit"        -> "Shutdown"
     /\ Reply(IF m.id = 0 THEN <<>> ELSE <<Out("result", m.id, m.uri, NoText)>>)
     /\ UNCHANGED documents

did_open ==
  LET m == Head(incoming)
  IN /\ Receive({"didOpen"})
     /\ documents' = [documents EXCEPT ![m.uri] = m.changes[1].text]
     /\ Reply(<<Out("diagnostics", 0, m.uri, m.changes[1].text)>>)
     /\ UNCHANGED state

\* decode_did_change: the text of the first change, whatever its range says.
decode_did_change(m) == <<Change(NoRange, m.changes[1].text)>>

\* Bug: the diagnostics are those of the document before the change.
did_changeStale ==
  LET m == Head(incoming)
  IN /\ Receive({"didChange"})
     /\ documents' = [documents EXCEPT ![m.uri] = decode_did_change(m)[1].text]
     /\ Reply(<<Out("diagnostics", 0, m.uri, documents[m.uri])>>)
     /\ UNCHANGED state

\* DocumentStore::update, which does nothing to a document that is not open.
did_change ==
  LET m == Head(incoming)
      new == Edits(documents[m.uri], decode_did_change(m))[1]
      known == documents[m.uri] # NoText
  IN /\ Receive({"didChange"})
     /\ documents' = IF known THEN [documents EXCEPT ![m.uri] = new] ELSE documents
     /\ Reply(IF known THEN <<Out("diagnostics", 0, m.uri, new)>> ELSE <<>>)
     /\ UNCHANGED state

did_save ==
  LET m == Head(incoming)
  IN /\ Receive({"didSave"})
     /\ Reply(IF documents[m.uri] = NoText THEN <<>>
              ELSE <<Out("diagnostics", 0, m.uri, documents[m.uri])>>)
     /\ UNCHANGED <<documents, state>>

\* Bug: the document stays in the store.
did_closeKeeps ==
  /\ Receive({"didClose"})
  /\ Reply(<<>>)
  /\ UNCHANGED <<documents, state>>

did_close ==
  /\ Receive({"didClose"})
  /\ documents' = [documents EXCEPT ![Head(incoming).uri] = NoText]
  /\ Reply(<<>>)
  /\ UNCHANGED state

\* A language feature: completion, hover, symbols, tokens, folding, formatting. On a
\* document that is not open the result is null or empty.
Feature ==
  LET m == Head(incoming)
  IN /\ Receive({"query"})
     /\ Reply(<<Out("result", m.id, m.uri, documents[m.uri])>>)
     /\ UNCHANGED <<documents, state>>

\* A message that is no JSON, a request with parameters that do not decode, or one
\* whose method the server does not have; as a notification it gets no reply.
Refuse ==
  LET m == Head(incoming)
  IN /\ Receive({"badJson", "badParams", "unknown", "badNotification"})
     /\ Reply(IF m.id = 0 THEN <<>> ELSE <<Out("error", m.id, m.uri, NoText)>>)
     /\ UNCHANGED <<documents, state>>

\* recv fails when the reader is gone and nothing is left in the channel.
Disconnected ==
  /\ main = "serving" /\ reader = "off" /\ incoming = <<>>
  /\ main' = "returned"
  /\ UNCHANGED <<client, stdin, stdout, reader, writer, incoming, outgoing, documents, state>>

\* run_server has returned, and so does main: what the writer has not written is lost.
Exit ==
  /\ main = "returned"
  /\ main' = "ended"
  /\ UNCHANGED <<client, stdin, stdout, reader, writer, incoming, outgoing, documents, state>>

run_server ==
  Lifecycle \/ did_open \/ did_change \/ did_save \/ did_close \/ Feature \/ Refuse
  \/ Disconnected \/ Exit

Next == (\E m \in Messages : Say(m)) \/ HangUp \/ read_message \/ Write \/ run_server

Spec == Init /\ [][Next]_vars

\* Each thread runs while it has something to do. The editor owes nothing.
FairSpec == Spec /\ WF_vars(read_message) /\ WF_vars(Write) /\ WF_vars(run_server)

-----------------------------------------------------------------------------
\* The editor gets exactly the answers it is owed, in the order of its requests, and
\* the answer to a request is about the text the editor had when it made the request,
\* although up to MaxSent messages are under way between the two.
AnswersAsOwed == IsPrefix(Answers(stdout), owed)

About(o, u) == o.op = "diagnostics" /\ o.uri = u

\* The last diagnostics of s for document u are of text t.
Published(s, u, t) ==
  \E i \in DOMAIN s : /\ About(s[i], u) /\ s[i].text = t
                      /\ \A j \in (i+1)..Len(s) : ~About(s[j], u)

\* The last diagnostics published for a document the editor has open, once nothing is
\* under way, are those of the text it has now.
DiagnosticsCurrent ==
  \A u \in Uris :
    /\ stdin = <<>> /\ incoming = <<>> /\ outgoing = <<>>
    /\ main = "serving" /\ stdout_open /\ text[u] # NoText
    => Published(stdout, u, text[u])

\* Once the server has handled all the editor has sent, its document store holds the
\* texts the editor has: the server says that it understands incremental changes
\* (build_initialize_result, "textDocumentSync", 2).
TextInSync ==
  stdin = <<>> /\ incoming = <<>> /\ main = "serving" => documents = text

\* For an editor that edits by ranges too: nothing it says is lost, reordered or handled
\* twice. The answers are those due by the server's reading of it, and once all was
\* handled the store is what that reading amounts to. TextInSync and AnswersAsOwed
\* fail by that reading alone: by decode_did_change.
ServesWhatItHeard ==
  /\ IsPrefix(Answers(stdout), due)
  /\ stdin = <<>> /\ incoming = <<>> /\ main = "serving" => documents = heard

\* Every request is answered in the end, whatever was sent before it, unless the
\* editor has stopped reading, asked for a shutdown, or broken off within a message.
RequestsAnswered ==
  \A n \in 1..MaxSent :
    Len(owed) >= n ~> \/ Len(Answers(stdout)) >= n
                      \/ ~stdout_open \/ told \/ stdin_end = "cut"

\* A shutdown request ends the server process.
ShutdownEnds == told ~> main = "ended"
=============================================================================
