----------------------------- MODULE LspServer -----------------------------
(***************************************************************************)
(* The language server: Iyi::Lsp::Server and Iyi::Lsp::Analysis of         *)
(* src/compiler/iyi/lsp, one process on two pipes.                         *)
(*                                                                         *)
(* A file is its path from the root without ".iyi", the name of the module *)
(* its header declares.  A text is a name; Info says of it what the front  *)
(* end can tell: what it imports, gives and calls, whether it is sound     *)
(* taken alone, and what text the compiler's suggestion would make of it.  *)
(* A message is a record of op, id (0: a notification), doc and arg.       *)
(*                                                                         *)
(* Fibers are cooperative: the reader runs only while the main fiber is    *)
(* parked, on an empty inbox or behind a verb it runs as a subprocess.     *)
(***************************************************************************)
EXTENDS IyiLists, FiniteSetsExt

CONSTANTS
    None,
    Files,         \* every path, in the order the directory lists them
    Info,          \* what there is to know of each text
    Garbled,       \* the text a range edit of another text leaves behind
    Endless,       \* the files whose program, when it is run, does not return
    Keep,          \* Analysis::KEEP
    MaxCancelled   \* the bound of @cancelled

Docs == ToSet(Files)
Texts == DOMAIN Info

\* What one compile can say: of which file, by which texts (of the files D), and
\* whether it held.
VerdictsOver(D) == [doc : Docs, view : [D -> Texts \cup {None}], holds : BOOLEAN]

ASSUME LspAssumption ==
    /\ Files \in Seq(Docs) /\ IsInjective(Files) /\ Garbled \in Texts /\ None \notin Texts
    /\ Endless \subseteq Docs
    /\ \A D \in SUBSET Docs : None \notin VerdictsOver(D)
    /\ \A t \in Texts : Info[t].imports \subseteq Docs
    /\ Keep \in Nat \ {0} /\ MaxCancelled \in Nat

VARIABLES
    disk,          \* what each file holds
    moved,         \* how often each file was written: its size and mtime
    stdin,         \* frames written and not read
    stdout,        \* answers said and not read
    hungUp,        \* whether stdin's other end is closed
    running,       \* @running
    root,          \* whether initialize named a root
    snippets,      \* @snippets
    inbox,         \* the reader's channel and @inbox, one behind the other
    cancelled,     \* @cancelled
    documents,     \* @documents
    published,     \* @published: the verdict each entry was made from
    tokens,        \* @token_data, @token_result in its ids
    analysis,      \* @open, @last_good (oldest first), @memo with its key
    job,           \* the handler that is not done in one step
    pending,       \* history: the requests without an answer
    handed         \* history: verdicts said with a result id

worldVars == <<disk, moved>>
pipeVars == <<stdin, hungUp>>
sessionVars == <<running, root, snippets>>
askVars == <<stdout, pending>>
docVars == <<documents, published, analysis>>
serverVars == <<stdin, stdout, hungUp, sessionVars, inbox, cancelled, docVars,
                tokens, job, pending, handed>>

Idle == [do |-> "nothing"]
NoMemo == [key |-> None]

ServerInit ==
    /\ stdin = <<>> /\ stdout = <<>> /\ hungUp = FALSE
    /\ running = TRUE /\ root = FALSE /\ snippets = FALSE
    /\ inbox = <<>> /\ cancelled = {}
    /\ documents = [d \in Docs |-> None]
    /\ published = [d \in Docs |-> None]
    /\ tokens = [count |-> 0, last |-> [d \in Docs |-> None]]
    /\ analysis = [open |-> {}, lastGood |-> <<>>, memo |-> NoMemo]
    /\ job = Idle
    /\ pending = {} /\ handed = {}

-----------------------------------------------------------------------------
(* What the front end sees *)

\* text_of: the buffer, or the file
TextOf(docs, d) == IF docs[d] # None THEN docs[d] ELSE disk[d]

\* The same among the workspace's entries: without a root, only what is open.
Listed(d) == IF root THEN TextOf(documents, d) ELSE documents[d]

Entries == {d \in Docs : Listed(d) # None}

ImportsOf(t) == IF t = None THEN {} ELSE Info[t].imports

\* The files that d's imports reach, d among them, by the texts See has.
Reached(See(_), d) ==
    LET Within[n \in 0..Len(Files)] ==
          IF n = 0 THEN {d}
          ELSE UNION {{x} \cup ImportsOf(See(x)) : x \in Within[n - 1]}
    IN  Within[Len(Files)]

\* One compile of text t as file d: the buffers over the disk.
View(docs, d, t) ==
    LET See(x) == IF x = d THEN t ELSE TextOf(docs, x)
    IN  [x \in Reached(See, d) |-> See(x)]

Compiles(d, view) ==
    /\ \A x \in DOMAIN view : view[x] # None
    /\ Info[view[d]].sound
    /\ Info[view[d]].calls \subseteq
         UNION {Info[view[x]].gives : x \in DOMAIN view}

Compile(docs, d, t) ==
    CHOOSE result \in {[doc |-> d, view |-> view, holds |-> Compiles(d, view)] :
                         view \in {View(docs, d, t)}} : TRUE

-----------------------------------------------------------------------------
(* Analysis *)

\* Mutant: the sibling buffers are no part of the key.
MemoKeyAlone(docs, d, t) == [doc |-> d, text |-> t, overrides |-> None]

\* Mutant: nor is the buffer, only its siblings.
MemoKeyTextless(docs, d, t) == [doc |-> d, text |-> None,
                                overrides |-> [x \in Docs \ {d} |-> docs[x]]]

\* The path, the buffer, and the sibling buffers.
MemoKey(docs, d, t) == [doc |-> d, text |-> t,
                        overrides |-> [x \in Docs \ {d} |-> docs[x]]]
Remembers(docs, d, t) ==
    analysis.memo.key # None /\ analysis.memo.key = MemoKey(docs, d, t)

Check(docs, d, t) ==
    IF Remembers(docs, d, t) THEN analysis.memo.result ELSE Compile(docs, d, t)

\* The typed programs of the other documents.
Others(d) ==
    Picked(analysis.lastGood,
           {i \in DOMAIN analysis.lastGood : analysis.lastGood[i].doc # d})

\* Mutant: whatever compiles is kept, opened or not.
RememberingAll(docs, opened, d, t, result) ==
    LET kept == Append(Others(d), result)
    IN  [open |-> opened,
         memo |-> [key |-> MemoKey(docs, d, t), result |-> result],
         lastGood |-> IF ~result.holds THEN analysis.lastGood
                      ELSE IF Len(kept) > Keep THEN Tail(kept) ELSE kept]

\* What a check leaves behind: the memo, and a result that held together if
\* the document is open, the oldest of more than Keep making room.
Remembering(docs, opened, d, t, result) ==
    LET kept == Append(Others(d), result)
    IN  [open |-> opened,
         memo |-> [key |-> MemoKey(docs, d, t), result |-> result],
         lastGood |->
           IF Remembers(docs, d, t) \/ ~result.holds \/ d \notin opened
           THEN analysis.lastGood
           ELSE IF Len(kept) > Keep THEN Tail(kept) ELSE kept]

\* check with the buffers docs, what it leaves behind, and what Then makes of
\* its result.
Checks(docs, opened, d, t, Then(_)) ==
    \E result \in {Check(docs, d, t)} :
        /\ analysis' = Remembering(docs, opened, d, t, result)
        /\ Then(result)

\* Mutant: no falling back.
ResultForNow(d, result) == IF result.holds THEN result ELSE None

\* result_for: this compile if it holds, the last one that did otherwise.
ResultFor(d, result) ==
    LET older == {i \in DOMAIN analysis.lastGood : analysis.lastGood[i].doc = d}
    IN  IF result.holds THEN result
        ELSE IF older # {} THEN analysis.lastGood[Min(older)] ELSE None

\* close: the typed program goes, and the memo with it if it is d's.
Forgetting(d) ==
    [open |-> analysis.open \ {d},
     lastGood |-> Others(d),
     memo |-> IF analysis.memo.key # None /\ analysis.memo.key.doc = d
              THEN NoMemo ELSE analysis.memo]

-----------------------------------------------------------------------------
(* The loop: drain, sweep, shift *)

AtLoop == running /\ job = Idle

\* The reader fiber and drain: a parked main lets it read all there is;
\* frames that are no JSON are dropped on the way.
Reads ==
    /\ running /\ stdin # <<>>
    /\ job.do = "verb" \/ (AtLoop /\ inbox = <<>>)
    /\ inbox' = inbox \o Picked(stdin, {i \in DOMAIN stdin : stdin[i].op # "junk"})
    /\ stdin' = <<>>
    /\ UNCHANGED <<worldVars, stdout, hungUp, sessionVars, cancelled, docVars,
                   tokens, job, pending, handed>>

IsCancel(m) == m.op = "$/cancelRequest"
Swept == Picked(inbox, {i \in DOMAIN inbox : ~IsCancel(inbox[i])})

CancelsIn(queue) == {queue[i].arg : i \in {j \in DOMAIN queue : IsCancel(queue[j])}}

\* Mutant: a cancel counts when its turn comes.
NamedInTurn ==
    LET all == cancelled \cup CancelsIn(SubSeq(inbox, 1, 1))
    IN  IF Cardinality(all) > MaxCancelled THEN {} ELSE all

\* sweep_cancels, the set of ids it leaves
Named ==
    LET all == cancelled \cup CancelsIn(inbox)
    IN  IF Cardinality(all) > MaxCancelled THEN {} ELSE all

\* Mutant: the loop goes round with them in the queue.
RoundAndRound ==
    /\ AtLoop /\ inbox # <<>> /\ Swept = <<>>
    /\ inbox' = inbox /\ cancelled' = Named
    /\ UNCHANGED <<worldVars, pipeVars, askVars, sessionVars, docVars, tokens,
                   job, handed>>

\* Only cancels were waiting.
DropsCancels ==
    /\ AtLoop /\ inbox # <<>> /\ Swept = <<>>
    /\ inbox' = <<>> /\ cancelled' = Named
    /\ UNCHANGED <<worldVars, pipeVars, askVars, sessionVars, docVars, tokens,
                   job, handed>>

\* The next message is m, and nobody cancelled it.
Shifts(m) ==
    /\ AtLoop /\ Swept # <<>> /\ m = Head(Swept)
    /\ m.id \notin Named
    /\ inbox' = Tail(Swept) /\ cancelled' = Named

Say(m) == stdout' = Append(stdout, m) /\ pending' = pending \ {m.id}
Silent == UNCHANGED askVars

\* respond_cancelled
RespondsCancelled ==
    /\ AtLoop /\ Swept # <<>> /\ Head(Swept).id \in Named
    /\ inbox' = Tail(Swept) /\ cancelled' = Named \ {Head(Swept).id}
    /\ Say([id |-> Head(Swept).id, op |-> "error", code |-> -32800])
    /\ UNCHANGED <<worldVars, pipeVars, sessionVars, docVars, tokens, job, handed>>
\* EOF: what was read before it is handled first.
EndsAtEof ==
    /\ AtLoop /\ inbox = <<>> /\ stdin = <<>> /\ hungUp
    /\ running' = FALSE
    /\ UNCHANGED <<worldVars, pipeVars, askVars, root, snippets, inbox,
                   cancelled, docVars, tokens, job, handed>>

-----------------------------------------------------------------------------
(* Handlers that are one step *)

calmVars == <<worldVars, pipeVars, handed>>

\* initialize, shutdown, and every method it does not speak
Plain(m) ==
    /\ m.op \in {"initialize", "initialized", "shutdown", "unknown"} /\ Shifts(m)
    /\ IF m.id = 0 THEN Silent ELSE Say([id |-> m.id, op |-> "plain"])
    /\ root' = (root \/ m.op = "initialize")
    /\ snippets' = IF m.op = "initialize" THEN m.arg ELSE snippets
    /\ UNCHANGED <<calmVars, running, docVars, tokens, job>>

ExitNotice(m) ==
    /\ m.op = "exit" /\ Shifts(m)
    /\ running' = FALSE
    /\ UNCHANGED <<calmVars, askVars, root, snippets, docVars, tokens, job>>

\* The methods that raise without a text.
ReadsText == {"typed", "completion", "text", "codeAction", "tokens", "tokensDelta",
              "pull", "references", "allReferences", "rename", "callers", "didSave"}

\* The rescue: params that lack what the handler reads, or a file that is not
\* there; a notification gets no answer.
Raises(m) ==
    /\ m.op = "malformed" \/ (m.op \in ReadsText /\ TextOf(documents, m.doc) = None)
    /\ Shifts(m)
    /\ IF m.id = 0 THEN Silent ELSE Say([id |-> m.id, op |-> "error", code |-> -32603])
    /\ UNCHANGED <<calmVars, sessionVars, docVars, tokens, job>>

\* publish_diagnostics, with the buffers as docs has them
Publishes(docs, opened, d) ==
    /\ documents' = docs
    /\ Checks(docs, opened, d, TextOf(docs, d), LAMBDA result :
         /\ published' = [published EXCEPT ![d] = result]
         /\ Say([id |-> 0, op |-> "publish", doc |-> d,
                 holds |-> result.holds, view |-> result.view]))

DidOpen(m) ==
    /\ m.op = "didOpen" /\ Shifts(m)
    /\ Publishes([documents EXCEPT ![m.doc] = m.arg], analysis.open \cup {m.doc},
                 m.doc)
    /\ UNCHANGED <<calmVars, sessionVars, tokens, job>>

\* apply_change: the whole text, or a range of the text it was made for.
Apply(text, change) ==
    IF change.of = None \/ change.of = text THEN change.text ELSE Garbled

IsChangeOf(d, m) == m.op = "didChange" /\ m.doc = d

\* How many changes of d stand first in the queue.
Burst(d, queue) ==
    LET other == {i \in DOMAIN queue : ~IsChangeOf(d, queue[i])}
    IN  IF other = {} THEN Len(queue) ELSE Min(other) - 1

\* Mutant: of a burst only the last change counts.
LastApplied(text, edits) == Apply(text, Last(edits).arg)

Applied(text, edits) ==
    LET after[n \in 0..Len(edits)] ==
          IF n = 0 THEN text ELSE Apply(after[n - 1], edits[n].arg)
    IN  after[Len(edits)]

\* didChange, with the burst behind it
DidChange(m) ==
    LET burst == Burst(m.doc, Tail(Swept))
        edits == SubSeq(Swept, 1, burst + 1)
        before == IF documents[m.doc] = None THEN Garbled ELSE documents[m.doc]
        text == Applied(before, edits)
    IN  /\ m.op = "didChange" /\ AtLoop /\ Swept # <<>> /\ m = Head(Swept)
        /\ inbox' = SubSeq(Swept, burst + 2, Len(Swept)) /\ cancelled' = Named
        /\ Publishes([documents EXCEPT ![m.doc] = text], analysis.open, m.doc)
        /\ UNCHANGED <<calmVars, sessionVars, tokens, job>>
DidSave(m) ==
    /\ m.op = "didSave" /\ TextOf(documents, m.doc) # None /\ Shifts(m)
    /\ Publishes(documents, analysis.open, m.doc)
    /\ UNCHANGED <<calmVars, sessionVars, tokens, job>>

DidClose(m) ==
    /\ m.op = "didClose" /\ Shifts(m)
    /\ documents' = [documents EXCEPT ![m.doc] = None]
    /\ published' = [published EXCEPT ![m.doc] = None]
    /\ analysis' = Forgetting(m.doc)
    /\ UNCHANGED <<calmVars, askVars, sessionVars, tokens, job>>

\* The text a typed result was compiled from, None without one.
Typed(d, result) == IF result = None THEN None ELSE result.view[d]

\* Every question about one cursor: hover, definition, highlight, ...
AsksType(m) ==
    LET d == m.doc  t == TextOf(documents, d)
    IN  /\ m.op = "typed" /\ t # None /\ Shifts(m)
        /\ Checks(documents, analysis.open, d, t, LAMBDA result :
             Say([id |-> m.id, op |-> "typed", from |-> Typed(d, ResultFor(d, result))]))
        /\ UNCHANGED <<calmVars, sessionVars, documents, published, tokens, job>>

\* Completion of a prefix of name m.arg: what the typed result offers, then
\* what the other entries export.
Completes(m) ==
    LET d == m.doc  t == TextOf(documents, d)
    IN  /\ m.op = "completion" /\ t # None /\ Shifts(m)
        /\ Checks(documents, analysis.open, d, t, LAMBDA result :
             Say([id |-> m.id, op |-> "completion", snippets |-> snippets,
                  from |-> Typed(d, ResultFor(d, result)),
                  docs |-> {x \in Entries \ {d} :
                              m.arg \in Info[TextOf(documents, x)].gives}]))
        /\ UNCHANGED <<calmVars, sessionVars, documents, published, tokens, job>>

\* Questions the text alone answers: outline, folds, format, links, lenses
AsksText(m) ==
    LET t == TextOf(documents, m.doc)
    IN  /\ m.op = "text" /\ t # None /\ Shifts(m)
        /\ Say([id |-> m.id, op |-> "text", from |-> t])
        /\ UNCHANGED <<calmVars, sessionVars, docVars, tokens, job>>

\* workspace/symbol
FindsSymbol(m) ==
    /\ m.op = "symbol" /\ Shifts(m)
    /\ Say([id |-> m.id, op |-> "symbol",
            docs |-> {x \in Entries : m.arg \in Info[TextOf(documents, x)].gives}])
    /\ UNCHANGED <<calmVars, sessionVars, docVars, tokens, job>>

\* willRenameFiles: the file itself and every entry that imports its module
WillRename(m) ==
    /\ m.op = "willRename" /\ Shifts(m)
    /\ Say([id |-> m.id, op |-> "willRename",
            docs |-> IF TextOf(documents, m.doc) = None THEN {}
                     ELSE {m.doc} \cup {x \in Entries :
                            m.doc \in ImportsOf(TextOf(documents, x))}])
    /\ UNCHANGED <<calmVars, sessionVars, docVars, tokens, job>>

\* codeAction: the fix of the stored verdict, the header of the buffer
ActsOnCode(m) ==
    LET stored == published[m.doc]
    IN  /\ m.op = "codeAction" /\ TextOf(documents, m.doc) # None /\ Shifts(m)
        /\ Say([id |-> m.id, op |-> "codeAction",
                fix |-> IF stored = None \/ stored.holds THEN None
                        ELSE Info[stored.view[m.doc]].fix,
                tidy |-> Info[TextOf(documents, m.doc)].fix])
        /\ UNCHANGED <<calmVars, sessionVars, docVars, tokens, job>>

-----------------------------------------------------------------------------
(* Semantic tokens *)

\* remember_tokens
RemembersTokens(d, t) ==
    tokens' = [count |-> tokens.count + 1,
               last |-> [tokens.last EXCEPT ![d] =
                          [id |-> tokens.count + 1, text |-> t]]]

ColorsAll(m) ==
    LET t == TextOf(documents, m.doc)
    IN  /\ m.op = "tokens" /\ t # None /\ Shifts(m)
        /\ RemembersTokens(m.doc, t)
        /\ Say([id |-> m.id, op |-> "tokens", doc |-> m.doc,
                resultId |-> tokens.count + 1, over |-> None, text |-> t])
        /\ UNCHANGED <<calmVars, sessionVars, docVars, job>>

KnowsColors(d, previous) ==
    tokens.last[d] # None /\ tokens.last[d].id = previous
\* The splice over the previous answer, or a full one.
ColorsDelta(m) ==
    LET t == TextOf(documents, m.doc)
    IN  /\ m.op = "tokensDelta" /\ t # None /\ Shifts(m)
        /\ RemembersTokens(m.doc, t)
        /\ Say([id |-> m.id, op |-> "tokens", doc |-> m.doc,
                resultId |-> tokens.count + 1,
                over |-> IF KnowsColors(m.doc, m.arg)
                         THEN tokens.last[m.doc].text ELSE None,
                text |-> t])
        /\ UNCHANGED <<calmVars, sessionVars, docVars, job>>

-----------------------------------------------------------------------------
(* Pulls and walks: the world may move between two files of them *)

\* An open buffer by its text, a file by its size and mtime.
Stamp(x) == IF documents[x] # None THEN <<x, documents[x], 0>>
            ELSE <<x, None, moved[x]>>

\* Mutant: only what the file names itself.
ResultIdDirect(d) ==
    {Stamp(x) : x \in {y \in {d} \cup ImportsOf(Listed(d)) : Listed(y) # None}}

\* result_ids, for one file: the fold over everything its imports reach.
ResultId(d) ==
    {Stamp(x) : x \in {y \in Reached(Listed, d) : Listed(y) # None}}

\* The next of docs in the order of the files.
First(docs) == Files[Min({i \in DOMAIN Files : Files[i] \in docs})]

Item(d, id, kind, result, again) ==
    [doc |-> d, resultId |-> id, kind |-> kind, result |-> result, again |-> again]

\* One file's part of a pull whose id was computed before.
Judges(d, id, previous) ==
    IF previous = id
    THEN /\ job' = [job EXCEPT !.todo = @ \ {d},
                               !.items = Append(@, Item(d, id, "unchanged", None, FALSE))]
         /\ UNCHANGED <<analysis, published, handed>>
    ELSE LET t == TextOf(documents, d)
         IN  Checks(documents, analysis.open, d, t, LAMBDA result :
               LET item == Item(d, id, "full", result, Remembers(documents, d, t))
               IN  /\ published' = [published EXCEPT ![d] = result]
                   /\ handed' = handed \cup {item}
                   /\ job' = [job EXCEPT !.todo = @ \ {d}, !.items = Append(@, item)])

\* A pull starts with the ids, of one document or of the workspace.
PullBegins(m) ==
    LET asked == IF m.op = "pull" THEN {m.doc} ELSE Entries
    IN  /\ m.op \in {"pull", "workspace"} /\ Shifts(m)
        /\ m.op = "pull" => TextOf(documents, m.doc) # None
        /\ job' = [do |-> m.op, id |-> m.id, previous |-> m.arg,
                   ids |-> [d \in asked |-> ResultId(d)],
                   todo |-> asked, items |-> <<>>]
        /\ UNCHANGED <<calmVars, askVars, sessionVars, docVars, tokens>>

\* A file that is gone by its turn is left out.
PullGoesOn ==
    /\ running /\ job.do \in {"pull", "workspace"} /\ job.todo # {}
    /\ \E d \in {First(job.todo)} :
         IF TextOf(documents, d) = None
         THEN /\ UNCHANGED <<analysis, published, handed>>
              /\ job' = [job EXCEPT !.todo = @ \ {d}]
         ELSE Judges(d, job.ids[d], job.previous[d])
    /\ UNCHANGED <<worldVars, pipeVars, askVars, sessionVars, inbox, cancelled,
                   documents, tokens>>

PullAnswers ==
    /\ running /\ job.do \in {"pull", "workspace"} /\ job.todo = {}
    /\ Say([id |-> job.id, op |-> "pull", items |-> job.items])
    /\ job' = Idle
    /\ UNCHANGED <<worldVars, pipeVars, sessionVars, inbox, cancelled, docVars,
                   tokens, handed>>

\* entries_reaching: d itself and the entries whose imports reach it, with the
\* text each has now; every entry if d is none.
Reaching(d, entries) ==
    [x \in {d} \cup {y \in entries : d \notin entries \/ d \in Reached(Listed, y)} |->
       IF x = d THEN TextOf(documents, d) ELSE Listed(x)]

Walks == {"references", "allReferences", "rename", "callers"}

\* references (with or without the declaration), rename, incomingCalls: who has
\* name m.arg of m.doc
WalkBegins(m) ==
    /\ m.op \in Walks /\ Shifts(m)
    /\ TextOf(documents, m.doc) # None
    /\ \E texts \in {Reaching(m.doc, IF m.op = "callers" THEN Entries \cup {m.doc}
                                      ELSE Entries)} :
         job' = [do |-> m.op, id |-> m.id, name |-> m.arg, from |-> m.doc, sites |-> {},
                 texts |-> texts, todo |-> DOMAIN texts]
    /\ UNCHANGED <<calmVars, askVars, sessionVars, docVars, tokens>>

\* The texts a result has the name in, the declaration if it is asked for.
SitesIn(d, result) ==
    LET t == Typed(d, result)
    IN  IF t = None THEN {}
        ELSE IF job.name \in Info[t].calls
                \/ (job.do \in {"allReferences", "rename"} /\ d = job.from /\ job.name \in Info[t].gives)
        THEN {<<d, t>>} ELSE {}

\* The document itself goes first.
WalkGoesOn ==
    /\ running /\ job.do \in Walks /\ job.todo # {}
    /\ \E d \in {IF job.from \in job.todo THEN job.from ELSE First(job.todo)} :
         Checks(documents, analysis.open, d, job.texts[d], LAMBDA checked :
             LET result == ResultFor(d, checked)
                 lost == result = None /\ d = job.from /\ job.do # "callers"
             IN  job' = [job EXCEPT !.todo = IF lost THEN {} ELSE @ \ {d},
                                    !.sites = @ \cup SitesIn(d, result)])
    /\ UNCHANGED <<worldVars, pipeVars, askVars, sessionVars, inbox, cancelled,
                   documents, published, tokens, handed>>

\* A rename with nothing to edit raises.
WalkAnswers ==
    /\ running /\ job.do \in Walks /\ job.todo = {}
    /\ IF job.do = "rename" /\ job.sites = {}
       THEN Say([id |-> job.id, op |-> "error", code |-> -32603])
       ELSE Say([id |-> job.id, op |-> job.do, sites |-> job.sites,
                 docs |-> {s[1] : s \in job.sites}])
    /\ job' = Idle
    /\ UNCHANGED <<worldVars, pipeVars, sessionVars, inbox, cancelled, docVars,
                   tokens, handed>>

-----------------------------------------------------------------------------
(* Verbs: the server's own binary in a subprocess *)

\* run_verb, of iyi.run or of a verb that runs nothing: a buffer that differs
\* from its file goes into a scratch file.
VerbBegins(m) ==
    /\ m.op = "verb" /\ Shifts(m)
    /\ job' = [do |-> "verb", id |-> m.id, doc |-> m.doc,
               text |-> TextOf(documents, m.doc), runs |-> m.arg = "run"]
    /\ UNCHANGED <<calmVars, askVars, sessionVars, docVars, tokens>>

\* The verb reads every other file from the disk.
VerbCompiles == Compile([x \in Docs |-> None], job.doc, job.text).holds

\* The program runs and does not return.  At thirty seconds the verb gets one
\* SIGTERM, and the wait goes on: the program has the verb's output open.
Hangs == job.do = "verb" /\ job.runs /\ job.doc \in Endless /\ VerbCompiles

\* The verb has ended, and whatever had its output open.  One that hung was
\* terminated, and somebody put an end to the program.
VerbAnswers ==
    /\ running /\ job.do = "verb"
    /\ Say([id |-> job.id, op |-> "verb",
            holds |-> VerbCompiles /\ ~Hangs])
    /\ job' = Idle
    /\ UNCHANGED <<worldVars, pipeVars, sessionVars, inbox, cancelled, docVars,
                   tokens, handed>>

-----------------------------------------------------------------------------

Handles(m) ==
    \/ Plain(m) \/ ExitNotice(m) \/ Raises(m)
    \/ DidOpen(m) \/ DidChange(m) \/ DidSave(m) \/ DidClose(m)
    \/ AsksType(m) \/ Completes(m) \/ AsksText(m)
    \/ FindsSymbol(m) \/ WillRename(m) \/ ActsOnCode(m)
    \/ ColorsAll(m) \/ ColorsDelta(m)
    \/ PullBegins(m) \/ WalkBegins(m) \/ VerbBegins(m)

ServerNext ==
    \/ Reads \/ DropsCancels \/ RespondsCancelled \/ EndsAtEof
    \/ (Swept # <<>> /\ \E m \in {Head(Swept)} : Handles(m))
    \/ PullGoesOn \/ PullAnswers \/ WalkGoesOn \/ WalkAnswers
    \/ VerbAnswers
=============================================================================
