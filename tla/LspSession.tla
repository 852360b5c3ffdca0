---------------------------- MODULE LspSession ----------------------------
(***************************************************************************)
(* The scripts of bench/lsp_session.py (the gate, its fixtures and its     *)
(* steps) and of bench/lsp_soak.py.  A fixture is the name of a text; what *)
(* a step prints, and the ranges and labels it compares, are left out.     *)
(***************************************************************************)
EXTENDS LspClient

Text(imports, gives, calls) ==
    [imports |-> imports, gives |-> gives, calls |-> calls, sound |-> TRUE,
     fix |-> None]
Unsound(t) == [t EXCEPT !.sound = FALSE]
Fixed(t, by) == [t EXCEPT !.fix = by]

Lexer == "calc/lexer"

\* app.iyi, text by text
App(calls) == Text({"greet"}, {"run"}, calls)
AppTexts ==
    "app/empty" :> Text({}, {}, {})
    @@ "app/broken" :> Unsound(App({"shout"}))
    @@ "app/speccy" :> Unsound(App({"shout"}))
    @@ "app/fixed" :> App({"shout"})
    @@ "app/hovered" :> App({"shout"})
    @@ "app/hollered" :> App({"holler"})
    @@ "app/dotted" :> Unsound(App({"holler"}))
    @@ "app/bare" :> Unsound(App({"holler"}))
    @@ "app/yelled" :> App({"yell"})
    @@ "app/yel" :> App({"yel"})
    @@ "app/typo" :> Fixed(Unsound(App({"yell"})), "app/upcased")
    @@ "app/upcased" :> App({"yell"})
    @@ "app/sloppy" :> App({"yell"})
    @@ "app/fuzzy" :> Unsound(App({"yell"}))
    @@ "app/burst" :> App({"yell"})
    @@ "app/gone" :> App({"yell"})

\* The other fixtures
FileTexts ==
    "greet/shout" :> Text({}, {"shout"}, {})
    @@ "greet/holler" :> Text({}, {"holler"}, {})
    @@ "greet/yell" :> Text({}, {"yell"}, {})
    @@ "lexer" :> Text({}, {"token", "glyph"}, {})
    @@ "lexer/touched" :> Text({}, {"token", "glyph"}, {})
    @@ "scanner" :> Text({}, {"token", "glyph"}, {})
    @@ "parser" :> Text({Lexer}, {"first"}, {"token"})
    @@ "parser/moved" :> Text({"calc/scanner"}, {"first"}, {"token"})
    @@ "printer" :> Text({Lexer}, {"show"}, {"token"})
    @@ "shapes" :> Text({}, {"Paint", "paint", "render"}, {"paint", "render"})
    @@ "shapes/renk" :> Text({}, {"Paint", "paint", "render"}, {"paint", "render"})
    @@ "broken/int" :> Unsound(Text({}, {"boom"}, {}))
    @@ "broken/str" :> Text({}, {"boom"}, {})
    @@ "base" :> Text({}, {"Box", "area"}, {})
    @@ "make" :> Text({"shape/base"}, {"make"}, {"Box"})
    @@ "use" :> Text({"shape/make"}, {}, {"make", "area"})
    @@ "lone" :> Text({}, {"area"}, {"area"})
    @@ "scratch/tok" :> Text({}, {"go"}, {"tok"})
    @@ "scratch/token" :> Text({Lexer}, {"go"}, {"token"})
    @@ "scratch/gly" :> Text({Lexer}, {"go"}, {"token", "gly"})
    @@ "scratch/yel" :> Text({Lexer}, {"go"}, {"token", "yel"})
    @@ "tidy/messy" :> Fixed(Text({Lexer}, {}, {"token", "glyph"}), "tidy/tidied")
    @@ "tidy/tidied" :> Text({Lexer}, {}, {"token", "glyph"})

SoakTexts == "alive" :> Text({}, {"ping"}, {}) @@ "ghost" :> Text({}, {}, {})
             @@ "big" :> Text({}, {"f0"}, {})

TypedAs(d, t) == Ask(Request("typed", d, None), [op |-> "typed", from |-> t])
TextAs(d, t) == Ask(Request("text", d, None), [op |-> "text", from |-> t])
Plainly(op, arg) == Ask(Request(op, None, arg), [op |-> "plain"])

-----------------------------------------------------------------------------
(* The gate *)

Steps1to4 == <<
    Plainly("initialize", TRUE),
    Tell(Notice("initialized", None, None)),
    Verdict(Open("app", "app/broken"), None, FALSE),
    Verdict(Change("app", "app/speccy"), None, FALSE),
    Verdict(Change("app", "app/fixed"), None, TRUE) >>

Steps5to8 == <<
    Hear(Change("app", "app/hovered"), None),
    TypedAs("app", "app/hovered"), TypedAs("app", "app/hovered"),
    TextAs("app", "app/hovered"),
    Ask(Request("verb", "app", None), [op |-> "verb", holds |-> TRUE]) >>

Steps9to10 == <<
    Hear(Open("greet", "greet/shout"), "greet"),
    Hear(Change("greet", "greet/holler"), "greet"),
    Verdict(Change("app", "app/hollered"), "app", TRUE),
    Put(Lexer, "lexer"), Put("calc/parser", "parser"),
    Verdict(Open("calc/parser", "parser"), "calc/parser", TRUE) >>

Steps11to12 == <<
    Hear(Change("app", "app/dotted"), "app"),
    Ask(Request("completion", "app", "up"), [from |-> "app/hollered"]),
    Hear(Change("app", "app/bare"), "app"),
    Ask(Request("completion", "app", "lo"), [from |-> "app/hollered"]) >>

Steps13to14 == <<
    Hear(Change("app", "app/hollered"), "app"),
    Ask(Request("allReferences", "greet", "holler"), [docs |-> {"app", "greet"}]),
    Ask(Request("rename", "greet", "holler"), [docs |-> {"app", "greet"}]),
    Verdict(Change("greet", "greet/yell"), "greet", TRUE),
    Verdict(Change("app", "app/yelled"), "app", TRUE) >>

Steps15to16 == <<
    Verdict(Edit("app", "app/yel"), "app", FALSE),
    Verdict(Edit("app", "app/yelled"), "app", TRUE),
    Hear(Change("app", "app/typo"), "app"),
    Ask(Request("codeAction", "app", None), [fix |-> "app/upcased"]),
    Verdict(Change("app", "app/upcased"), "app", TRUE) >>

Steps17to21 == <<
    Hear(Change("app", "app/yelled"), "app"),
    TypedAs("app", "app/yelled"), TypedAs("app", "app/yelled"),
    TextAs("app", "app/yelled"),
    Ask(Request("symbol", None, "yell"), [has |-> {"greet"}]),
    TypedAs("greet", "greet/yell") >>

Steps22to25 == <<
    Ask(Request("tokens", "app", None), [text |-> "app/yelled"]),
    TypedAs("app", "app/yelled"), TypedAs("app", "app/yelled"),
    Hear(Change("app", "app/sloppy"), "app"),
    TextAs("app", "app/sloppy") >>

Steps26to29 == <<
    Put("shapes", "shapes"),
    Verdict(Open("shapes", "shapes"), "shapes", TRUE),
    TypedAs("shapes", "shapes"), TypedAs("shapes", "shapes"),
    Ask(Request("callers", "shapes", "paint"), [has |-> {"shapes"}]),
    TypedAs("shapes", "shapes"), TypedAs("shapes", "shapes"),
    TextAs("shapes", "shapes") >>

Step30 == <<
    Hear(Change("app", "app/yel"), "app"),
    Ask(Request("pull", "app", "none"), [full |-> {"app"}, dirty |-> {"app"}]),
    Hear(Change("app", "app/yelled"), "app"),
    Ask(Request("pull", "app", "none"), [dirty |-> {}]) >>

Judged31 == {"app", "greet", Lexer, "calc/parser", "shapes", "broken"}

Step31 == <<
    Put("broken", "broken/int"),
    Ask(Request("workspace", None, "none"), [full |-> Judged31, dirty |-> {"broken"}]),
    Ask(Request("workspace", None, "known"), [unchanged |-> Judged31]),
    Put("broken", "broken/str"),
    Ask(Request("workspace", None, "known"), [full |-> {"broken"}, dirty |-> {}]),
    Put(Lexer, "lexer/touched"),
    Ask(Request("workspace", None, "known"), [full |-> {Lexer, "calc/parser"}]) >>

Steps32to34 == <<
    Put("calc/printer", "printer"),
    Ask(Request("references", Lexer, "token"),
        [has |-> {"calc/parser", "calc/printer"}]),
    Ask(Request("rename", Lexer, "token"),
        [docs |-> {Lexer, "calc/parser", "calc/printer"}]),
    TypedAs(Lexer, "lexer/touched"),
    Ask(Request("callers", Lexer, "token"),
        [has |-> {"calc/parser", "calc/printer"}]) >>

Step34b == <<
    Put("shape/base", "base"), Put("shape/make", "make"), Put("use", "use"),
    Put("lone", "lone"),
    Ask(Request("references", "shape/base", "area"), [docs |-> {"use"}]) >>

Steps35to36 == <<
    Put("scratch", "scratch/tok"),
    Hear(Open("scratch", "scratch/tok"), "scratch"),
    Ask(Request("completion", "scratch", "token"), [from |-> None, has |-> {Lexer}]),
    Verdict(Change("scratch", "scratch/token"), "scratch", TRUE),
    Hear(Change("scratch", "scratch/gly"), "scratch"),
    Ask(Request("completion", "scratch", "glyph"), [has |-> {Lexer}]) >>

Step37 == <<
    Hear(Change("app", "app/fuzzy"), "app"),
    Ask(Request("completion", "app", "ucs"), [from |-> "app/yelled"]) >>

\* One write: the change, a request behind it, and the request's cancel.
Step38 == <<
    AskAll(<<Change("app", "app/yelled"), Request("workspace", None, "none"),
             Notice("$/cancelRequest", None, 1)>>,
           [op |-> "error", code |-> -32800]) >>

\* One write: six changes, and a request to know when they are through.
Step39 == <<
    AskAll([n \in 1..5 |-> Change("app", "app/burst")]
             \o <<Change("app", "app/yelled"), Request("text", "app", None)>>,
           [heard |-> <<TRUE>>]) >>

Steps40to43 == <<
    TextAs("calc/parser", "parser"),
    TypedAs("shapes", "shapes"), TypedAs("shapes", "shapes"),
    TypedAs("shapes", "shapes"), TypedAs("shapes", "shapes"),
    TextAs("shapes", "shapes"),
    Ask(Request("verb", "shapes", "run"), [op |-> "verb", holds |-> TRUE]) >>

Step44 == <<
    Hear(Change("scratch", "scratch/yel"), "scratch"),
    Ask(Request("completion", "scratch", "yell"),
        [has |-> {"greet"}, snippets |-> TRUE]) >>

Step45 == <<
    Ask(Request("tokens", "shapes", None), [text |-> "shapes"]),
    Hear(Change("shapes", "shapes/renk"), "shapes"),
    Ask(Request("tokensDelta", "shapes", None),
        [over |-> "shapes", text |-> "shapes/renk"]),
    Ask(Request("tokens", "shapes", None), [over |-> None, text |-> "shapes/renk"]) >>

\* The binary that is unlinked meanwhile is no part of what a compile reads.
Step46 == <<
    Hear(Change("app", "app/gone"), "app"),
    Ask(Request("pull", "greet", "none"), [full |-> {"greet"}]) >>

Step47 == <<
    Put("tidy", "tidy/messy"),
    Hear(Open("tidy", "tidy/messy"), "tidy"),
    Ask(Request("codeAction", "tidy", None), [tidy |-> "tidy/tidied"]),
    Verdict(Change("tidy", "tidy/tidied"), "tidy", TRUE) >>

Step48 == <<
    Ask(Request("willRename", Lexer, None),
        [docs |-> {Lexer, "calc/parser", "calc/printer", "scratch", "tidy"}]),
    Put("calc/scanner", "scanner"), Put(Lexer, None),
    Verdict(Change("calc/parser", "parser/moved"), "calc/parser", TRUE) >>

Step49 == << Plainly("shutdown", None), Tell(Notice("exit", None, None)) >>

Gate ==
    [disk |-> "greet" :> "greet/shout" @@ "app" :> "app/empty",
     menu |-> {}, fuel |-> 0,
     steps |-> Steps1to4 \o Steps5to8 \o Steps9to10 \o Steps11to12 \o Steps13to14
               \o Steps15to16 \o Steps17to21 \o Steps22to25 \o Steps26to29
               \o Step30 \o Step31 \o Steps32to34 \o Step34b \o Steps35to36
               \o Step37 \o Step38 \o Step39 \o Steps40to43 \o Step44 \o Step45
               \o Step46 \o Step47 \o Step48 \o Step49]

-----------------------------------------------------------------------------
(* The soak *)

Alive == TypedAs("alive", "alive")
Junk == Tell(Notice("junk", None, None))

SoakOpens == <<
    Plainly("initialize", FALSE), Tell(Notice("initialized", None, None)),
    Hear(Open("alive", "alive"), "alive"), Alive >>

\* Blank lines, a header that does not parse, bodies that are no JSON.
SoakTransport == << Junk, Alive, Junk, Alive, Junk, Alive, Junk, Alive >>

\* Params that lack the position, and a position past the end.
SoakRequests == <<
    Ask(Request("malformed", "alive", None), [code |-> -32603]), Alive,
    Ask(Request("typed", "alive", None), [op |-> "typed"]), Alive >>

SoakGhost == << Hear(Change("ghost", "ghost"), "ghost"), Alive >>

SoakBig == << Put("big", "big"), Hear(Open("big", "big"), "big"), Alive >>

Soak ==
    [disk |-> "alive" :> "alive", menu |-> {}, fuel |-> 0,
     steps |-> SoakOpens \o SoakTransport \o SoakRequests \o SoakGhost
               \o SoakBig \o Step49]
=============================================================================
