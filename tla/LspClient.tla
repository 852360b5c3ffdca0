----------------------------- MODULE LspClient -----------------------------
(***************************************************************************)
(* The other end of the language server's pipes: the Client of             *)
(* bench/lsp_session.py, which plays the steps of a script and stops at    *)
(* the first that does not hold, or an editor that does what its menu has, *)
(* in any order and without waiting, before it plays its last steps.       *)
(***************************************************************************)
EXTENDS LspServer

CONSTANT Clients   \* Clients[c] = [disk, menu, fuel, steps]

\* Frames, as a script writes them
Frame(op, d, arg, asks) == [op |-> op, doc |-> d, arg |-> arg, asks |-> asks]
Asked(frames, i) == Cardinality({j \in 1..i : frames[j].asks})

Notices == {"initialized", "didOpen", "didChange", "didSave", "didClose",
            "$/cancelRequest", "exit"}
OnDocs == ReadsText \cup {"didOpen", "didChange", "didClose", "willRename", "verb"}

\* A frame is a notification or a request as its op is, is about a known file
\* if its op is about one, and has the parameter its op takes.
WellFormed(f) ==
    /\ f.asks \in BOOLEAN
    /\ f.op \in Notices => ~f.asks
    /\ f.op \in {"tokens", "tokensDelta"} => f.asks
    /\ f.op \in OnDocs => f.doc \in Docs
    /\ f.op = "initialize" => f.arg \in BOOLEAN
    /\ f.op = "didOpen" => f.arg \in Texts
    /\ f.op = "didChange" => f.arg \in [of : {None, "sheet"}, text : Texts]

\* A script cancels a request of the same write.
ClientsAssumption ==
    \A c \in DOMAIN Clients :
        /\ \A d \in DOMAIN Clients[c].disk : Clients[c].disk[d] \in Texts
        /\ \A f \in Clients[c].menu :
              \/ f.op = "cancel"
              \/ f.op = "save" /\ f.doc \in Docs /\ f.arg \in Texts \cup {None}
              \/ f.op \notin {"save", "$/cancelRequest"} /\ WellFormed(f)
        /\ \A i \in DOMAIN Clients[c].steps :
              LET s == Clients[c].steps[i]
                  n == Len(s.frames)
              IN  /\ s.saves # <<>> =>
                        s.saves[1] \in Docs /\ s.saves[2] \in Texts \cup {None}
                  /\ n \in Nat /\ DOMAIN s.frames = 1..n
                  /\ \A j \in 1..n : WellFormed(s.frames[j])
                  /\ \A j \in 1..n : s.frames[j].op = "$/cancelRequest" =>
                        s.frames[j].arg \in 1..Asked(s.frames, n)
ASSUME ClientsAssumption

VARIABLES
    who,        \* which client it is
    fuel,       \* how much an editor still does of its menu
    at,         \* the step it is at
    waits,      \* what it waits for: an id, a file, or nothing
    heard,      \* verdicts published and read since the step began
    failed,     \* whether a step did not hold
    nextId,     \* Client.next_id
    sheet,      \* the documents as the client has them
    known,      \* the result ids it was given
    colors,     \* the semantic tokens it has
    named,      \* history: what each delta asked to be spliced onto
    timely,     \* history: requests cancelled before they were read
    cancels     \* history: how many cancels were sent

clientVars == <<who, fuel, at, waits, heard, failed, nextId, sheet, known,
                colors, named, timely, cancels>>
lspVars == <<worldVars, serverVars, clientVars>>

Self == Clients[who]
Nothing == [for |-> "nothing"]

ClientInit ==
    /\ who \in DOMAIN Clients
    /\ disk = [d \in Docs |-> IF d \in DOMAIN Self.disk THEN Self.disk[d] ELSE None]
    /\ moved = [d \in Docs |-> 0]
    /\ fuel = Self.fuel
    /\ at = 1 /\ waits = Nothing /\ heard = <<>> /\ failed = FALSE
    /\ nextId = 0
    /\ sheet = [d \in Docs |-> None]
    /\ known = [d \in Docs |-> None]
    /\ colors = [d \in Docs |-> None]
    /\ named = {} /\ timely = {} /\ cancels = 0

-----------------------------------------------------------------------------
(* Frames and messages *)

Notice(op, d, arg) == Frame(op, d, arg, FALSE)
Request(op, d, arg) == Frame(op, d, arg, TRUE)
Open(d, t) == Notice("didOpen", d, t)
Change(d, t) == Notice("didChange", d, [of |-> None, text |-> t])
Edit(d, t) == Notice("didChange", d, [of |-> "sheet", text |-> t])

NoIds == [d \in Docs |-> None]

\* The parameter a frame has on the wire.
Wire(f) ==
    CASE f.op \in {"pull", "workspace"} ->
           IF f.arg = "known" THEN known ELSE NoIds
      [] f.op = "tokensDelta" ->
           IF colors[f.doc] = None THEN 0 ELSE colors[f.doc].id
      [] f.op = "$/cancelRequest" -> nextId + f.arg
      [] f.op = "didChange" ->
           IF f.arg.of = None THEN f.arg ELSE [f.arg EXCEPT !.of = sheet[f.doc]]
      [] OTHER -> f.arg

Messages(frames) ==
    [i \in DOMAIN frames |->
       [op |-> frames[i].op, doc |-> frames[i].doc, arg |-> Wire(frames[i]),
        id |-> IF frames[i].asks THEN nextId + Asked(frames, i) ELSE 0]]

\* What a message does to the text of d.
Edited(d, t, m) ==
    IF m.doc # d THEN t
    ELSE CASE m.op = "didOpen" -> m.arg
           [] m.op = "didClose" -> None
           [] m.op = "didChange" -> Apply(IF t = None THEN Garbled ELSE t, m.arg)
           [] OTHER -> t

\* What becomes of d's text t when a queue is through.
After(d, t, queue) ==
    LET text[n \in 0..Len(queue)] ==
          IF n = 0 THEN t ELSE Edited(d, text[n - 1], queue[n])
    IN  text[Len(queue)]

Ids(queue) == {queue[i].id : i \in DOMAIN queue} \ {0}

\* send, request_nowait, write_batch: one write, one flush.
Writes(frames) ==
    LET sent == Messages(frames)
        deltas == {i \in DOMAIN sent : sent[i].op = "tokensDelta"}
    IN  /\ stdin' = stdin \o sent
        /\ nextId' = nextId + Asked(frames, Len(frames))
        /\ pending' = pending \cup Ids(sent)
        /\ sheet' = [d \in Docs |-> After(d, sheet[d], sent)]
        /\ named' = named \cup
             {<<sent[i].id, IF colors[sent[i].doc] = None THEN None
                            ELSE colors[sent[i].doc].text>> : i \in deltas}
        /\ timely' = timely \cup (CancelsIn(sent) \cap Ids(stdin \o sent))
        /\ cancels' = cancels + Cardinality(CancelsIn(sent))

\* A program beside the server writes a file, or removes it.
Saves(d, t) ==
    /\ disk' = [disk EXCEPT ![d] = t]
    /\ moved' = [moved EXCEPT ![d] = @ + 1]

\* read_message, and what the client keeps of it.
Takes(m) ==
    /\ stdout # <<>> /\ m = Head(stdout) /\ stdout' = Tail(stdout)
    /\ known' = IF m.op # "pull" THEN known
                ELSE [d \in Docs |->
                        LET mine == {i \in DOMAIN m.items : m.items[i].doc = d}
                        IN  IF mine = {} THEN known[d]
                            ELSE m.items[Max(mine)].resultId]
    /\ colors' = IF m.op # "tokens" THEN colors
                 ELSE [colors EXCEPT ![m.doc] = [id |-> m.resultId, text |-> m.text]]
    /\ named' = {p \in named : p[1] # m.id}

worldSame == UNCHANGED worldVars
serverSame == UNCHANGED <<hungUp, sessionVars, inbox, cancelled, docVars, tokens,
                          job, handed>>

-----------------------------------------------------------------------------
(* Steps of a script *)

\* A step: what it saves (<<>> or <<file, text>>), the frames it writes, what
\* it waits for, and what the message it waited for has to be.
Step(saves, frames, for, d, want) ==
    [saves |-> saves, frames |-> frames, for |-> for, doc |-> d, want |-> want]

Tell(f) == Step(<<>>, <<f>>, "nothing", None, <<>>)
Put(d, t) == Step(<<d, t>>, <<>>, "nothing", None, <<>>)
Ask(f, want) == Step(<<>>, <<f>>, "answer", None, want)
AskAll(frames, want) == Step(<<>>, frames, "answer", None, want)
Hear(f, d) == Step(<<>>, <<f>>, "verdict", d, <<>>)
Verdict(f, d, holds) == Step(<<>>, <<f>>, "verdict", d, [holds |-> holds])
Roam == Step(<<>>, <<>>, "menu", None, <<>>)

ItemsOf(kind, m) == {m.items[i].doc : i \in {j \in DOMAIN m.items : m.items[j].kind = kind}}
Dirty(m) == {m.items[i].doc : i \in {j \in DOMAIN m.items :
               m.items[j].kind = "full" /\ ~m.items[j].result.holds}}

\* Whether the message, with the publishes read before it, is what the step
\* asserts.
Meets(m, want) ==
    \A k \in DOMAIN want :
      CASE k = "full" -> m.op = "pull" /\ ItemsOf("full", m) = want.full
        [] k = "unchanged" -> m.op = "pull" /\ ItemsOf("unchanged", m) = want.unchanged
        [] k = "dirty" -> m.op = "pull" /\ Dirty(m) = want.dirty
        [] k = "has" -> "docs" \in DOMAIN m /\ want.has \subseteq m.docs
        [] k = "heard" -> heard = want.heard
        [] OTHER -> k \in DOMAIN m /\ m[k] = want[k]

Playing == ~failed /\ at \in DOMAIN Self.steps /\ Self.steps[at].for # "menu"

StepBegins ==
    LET s == Self.steps[at]
    IN  /\ Playing /\ waits = Nothing
        /\ IF s.saves = <<>> THEN worldSame ELSE Saves(s.saves[1], s.saves[2])
        /\ Writes(s.frames)
        /\ heard' = <<>>
        /\ waits' = CASE s.for = "nothing" -> Nothing
                      [] s.for = "answer" ->
                           [for |-> "answer", id |-> nextId + Asked(s.frames, Len(s.frames))]
                      [] s.for = "verdict" -> [for |-> "verdict", doc |-> s.doc]
        /\ at' = IF s.for = "nothing" THEN at + 1 ELSE at
        /\ UNCHANGED <<stdout, who, fuel, failed, known, colors>>
        /\ serverSame

IsAwaited(m) ==
    CASE waits.for = "answer" -> m.id = waits.id
      [] waits.for = "verdict" ->
           m.op = "publish" /\ (waits.doc = None \/ m.doc = waits.doc)
      [] OTHER -> FALSE

\* wait_for, diagnostics: messages that are not it are read and dropped.
StepReads ==
    /\ Playing /\ waits # Nothing /\ stdout # <<>>
    /\ LET m == Head(stdout)
           s == Self.steps[at]
       IN  /\ Takes(m)
           /\ heard' = IF m.op = "publish" THEN Append(heard, m.holds) ELSE heard
           /\ IF IsAwaited(m)
              THEN /\ waits' = Nothing
                   /\ at' = at + 1
                   /\ failed' = ~Meets(m, s.want)
              ELSE UNCHANGED <<waits, at, failed>>
    /\ worldSame /\ serverSame
    /\ UNCHANGED <<stdin, pending, who, fuel, nextId, sheet, timely, cancels>>

\* The script is through, or was left at a step that failed.
HangsUp ==
    /\ (failed \/ at > Len(Self.steps)) /\ ~hungUp
    /\ hungUp' = TRUE
    /\ worldSame
    /\ UNCHANGED <<stdin, stdout, pending, sessionVars, inbox, cancelled, docVars,
                   tokens, job, handed, clientVars>>

-----------------------------------------------------------------------------
(* An editor *)

Roaming == at \in DOMAIN Self.steps /\ Self.steps[at].for = "menu"
Roams == Roaming /\ fuel > 0 /\ fuel' = fuel - 1

\* What the protocol lets a client say of a document.
Proper(f) ==
    CASE f.op = "didOpen" -> sheet[f.doc] = None
      [] f.op \in {"didChange", "didClose", "didSave"} -> sheet[f.doc] # None
      [] OTHER -> TRUE

editorSame == UNCHANGED <<who, at, waits, heard, failed>>

EditorWrites ==
    /\ Roams
    /\ \E f \in Self.menu : f.op \notin {"save", "cancel"} /\ Proper(f) /\ Writes(<<f>>)
    /\ worldSame /\ serverSame /\ editorSame
    /\ UNCHANGED <<stdout, known, colors>>

\* $/cancelRequest for one of the two requests sent last, answered or not.
EditorCancels ==
    /\ Roams /\ nextId > 0
    /\ \E back \in {0, 1} \cap 0..(nextId - 1) :
         \E f \in Self.menu : f.op = "cancel" /\
            Writes(<<Notice("$/cancelRequest", None, -back)>>)
    /\ worldSame /\ serverSame /\ editorSame
    /\ UNCHANGED <<stdout, known, colors>>

EditorSaves ==
    /\ Roams
    /\ \E f \in Self.menu : f.op = "save" /\ Saves(f.doc, f.arg)
    /\ serverSame /\ editorSame
    /\ UNCHANGED <<stdin, stdout, pending, nextId, sheet, known, colors, named,
                   timely, cancels>>

EditorReads ==
    /\ Roaming /\ stdout # <<>> /\ Takes(Head(stdout))
    /\ worldSame /\ serverSame /\ editorSame
    /\ UNCHANGED <<stdin, pending, fuel, nextId, sheet, timely, cancels>>

\* It is done with its menu; it may go without shutdown and exit.
EditorLeaves ==
    /\ Roaming
    /\ at' \in {at + 1, Len(Self.steps) + 1}
    /\ worldSame /\ serverSame
    /\ UNCHANGED <<stdin, stdout, pending, who, fuel, waits, heard, failed, nextId, sheet,
                   known, colors, named, timely, cancels>>

ClientNext ==
    \/ StepBegins \/ StepReads \/ HangsUp
    \/ EditorWrites \/ EditorCancels \/ EditorSaves \/ EditorReads \/ EditorLeaves

-----------------------------------------------------------------------------

LspInit == ClientInit /\ ServerInit

\* The process has exited.
Ended == ~running /\ UNCHANGED lspVars

LspNext ==
    \/ (ServerNext /\ UNCHANGED clientVars)
    \/ ClientNext
    \/ Ended

LspSpec == LspInit /\ [][LspNext]_lspVars

\* The server's process is scheduled, and the subprocesses that nobody's program
\* keeps end; the client reads and writes on.
LspFairSpec ==
    /\ LspSpec
    /\ WF_lspVars(ServerNext /\ ~Hangs /\ UNCHANGED clientVars)
    /\ WF_lspVars(Reads /\ UNCHANGED clientVars)
    /\ WF_lspVars(ClientNext)

-----------------------------------------------------------------------------
(* Types *)

\* Every variable of the server and of its client keeps its type; the set of
\* cancelled ids keeps its bound, and what was compiled is about known files.
LspTypeOK ==
    /\ disk \in [Docs -> Texts \cup {None}]
    /\ documents \in [Docs -> Texts \cup {None}]
    /\ sheet \in [Docs -> Texts \cup {None}]
    /\ moved \in [Docs -> Nat]
    /\ {running, root, snippets, hungUp, failed} \subseteq BOOLEAN
    /\ cancelled \subseteq 0..nextId
    /\ Cardinality(cancelled) <= MaxCancelled
    /\ pending \subseteq 1..nextId
    /\ analysis.open \subseteq Docs
    /\ \A d \in Docs : published[d] # None => published[d].doc = d

-----------------------------------------------------------------------------
(* Documents and verdicts *)

\* Between two messages every open document has a published verdict, and it is
\* about the text the document has: a burst ends in a verdict on its last
\* text, and codeAction reads ranges of the text they are applied to.
PublishedIsCurrent ==
    \A d \in Docs : documents[d] # None /\ AtLoop =>
        published[d] # None /\ published[d].view[d] = documents[d]

\* The verdicts in a message, each with the document it is about.
VerdictsIn(m) ==
    CASE m.op = "publish" -> {[doc |-> m.doc, view |-> m.view]}
      [] m.op = "pull" -> {[doc |-> m.items[i].doc, view |-> m.items[i].result.view] :
                             i \in {j \in DOMAIN m.items : m.items[j].kind = "full"}}
      [] OTHER -> {}

Said == Len(stdout') > Len(stdout)
News == Last(stdout')

\* No verdict is said that rests on another text of an open document than the
\* one its buffer has at that moment, memo or not: unsaved edits of a sibling
\* are seen through the import.  Nor does one rest on a buffer that was closed
\* unsaved: a file nobody wrote counts as it is on the disk.
VerdictSeesBuffers ==
    [][Said => \A v \in VerdictsIn(News) : \A x \in DOMAIN v.view :
         documents'[x] # None \/ moved'[x] = 0
           => v.view[x] = TextOf(documents', x)]_lspVars

\* The files of view d, and their texts now.
Now(d) == View(documents, d, TextOf(documents, d))

\* "unchanged" is true: nothing that the verdict with this result id was judged
\* by has another text now, though files are written between the computing of
\* the ids and the compiles, and between pulls.  Left out are verdicts that were
\* recalled from the memo, whose key does not hold the files on the disk, and
\* imports that are not in an id: all of them without a root, and files that
\* are not there.
UnchangedIsTrue ==
    root /\ job.do \in {"pull", "workspace"} /\ job.todo # {} =>
        \A d \in {First(job.todo)}, h \in handed :
            /\ h.doc = d /\ ~h.again
            /\ h.resultId = job.ids[d] /\ job.previous[d] = h.resultId
            /\ job.ids[d] = ResultId(d)
            /\ \A x \in DOMAIN Now(d) : Now(d)[x] # None
            => h.result.view = Now(d)

\* Everything keeps its type, and at most Keep typed programs are held, of open documents alone, whatever
\* walks compile (the comment at analysis.cr:42, "open documents only,
\* released on close").
FootprintBounded ==
    /\ LspTypeOK
    /\ Len(analysis.lastGood) <= Keep
    /\ \A i \in DOMAIN analysis.lastGood :
         analysis.lastGood[i].doc \in analysis.open /\ analysis.lastGood[i].holds
    /\ \A d \in analysis.open : documents[d] # None

-----------------------------------------------------------------------------
(* Requests *)

\* A request is answered at most once, and only if it was sent.  A cancel that
\* was written before its request was read overtakes it, wherever it stands in
\* the queue, until more cancels came than the set may hold.
AnsweredOnce ==
    [][Said /\ News.id # 0 =>
         /\ News.id \in pending /\ News.id \notin pending'
         /\ News.id \in timely /\ cancels <= MaxCancelled
              => News.op = "error" /\ News.code = -32800]_lspVars

\* Whatever is in the pipe and in the inbox, and however bursts are taken
\* together, the documents the server will have once it is through are those
\* the client has now (didOpen, didChange, didClose).
BuffersAgree ==
    running => \A d \in Docs : After(d, documents[d], inbox \o stdin) = sheet[d]

\* A delta is spliced onto the tokens its request named, never onto an answer
\* the client had not seen when it asked.
ColorsAgree ==
    \A i \in DOMAIN stdout : stdout[i].op = "tokens" =>
        stdout[i].over = None \/ <<stdout[i].id, stdout[i].over>> \in named

\* Server and client see one thing: the documents, and the tokens a delta is
\* spliced onto.
ViewsAgree == BuffersAgree /\ ColorsAgree

-----------------------------------------------------------------------------
(* Sessions *)

\* Every step of the gate and of the soak holds, whenever the server reads.
EveryStepHolds == ~failed

\* Every session ends with the process, told to or left alone, unless a program
\* it was asked to run never returns: that one takes the session with it.
SessionEnds == <>~running \/ <>[]Hangs
=============================================================================
