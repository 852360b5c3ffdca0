------------------------------- MODULE MCLsp -------------------------------
(***************************************************************************)
(* The clients TLC runs: the gate, the soak, and editors.                  *)
(***************************************************************************)
EXTENDS LspSession

AllTexts == AppTexts @@ FileTexts @@ SoakTexts
            @@ "garbled" :> Unsound(Text({}, {}, {}))
            @@ "base/renamed" :> Text({}, {"Box", "size"}, {})

AllFiles == <<"alive", "app", "big", "broken", "calc/lexer", "calc/parser",
              "calc/printer", "calc/scanner", "ghost", "greet", "lone", "scratch",
              "shape/base", "shape/make", "shapes", "tidy", "use">>

Save(d, t) == Notice("save", d, t)
Cancel == Notice("cancel", None, None)

Roamer(disks, before, menu, n) ==
    [disk |-> disks, menu |-> menu, fuel |-> n,
     steps |-> <<Plainly("initialize", TRUE)>> \o before \o <<Roam>> \o Step49]

\* Two open documents, one of which imports the other.
Edits == Roamer("app" :> "app/hovered" @@ "greet" :> "greet/shout",
    <<Hear(Open("greet", "greet/holler"), "greet"), Hear(Open("app", "app/hovered"), "app")>>,
    {Edit("app", "app/hollered"), Edit("greet", "greet/shout"),
     Open("greet", "greet/holler"), Notice("didClose", "greet", None),
     Notice("didSave", "app", None), Request("typed", "app", None),
     Request("rename", "greet", "holler")}, 3)

\* Three files in a chain of imports, opened or not, pulled over and over.
Pulls == Roamer("use" :> "use" @@ "shape/make" :> "make" @@ "shape/base" :> "base",
    <<Ask(Request("pull", "use", "known"), [dirty |-> {}])>>,
    {Save("shape/base", "base/renamed"), Save("shape/base", "base"),
     Open("shape/base", "base"), Edit("shape/base", "base/renamed"),
     Request("pull", "use", "known"), Request("workspace", None, "known")}, 3)

\* Tokens and their deltas, asked for without waiting.
Colors == Roamer("shapes" :> "shapes",
    <<Hear(Open("shapes", "shapes"), "shapes"),
      Ask(Request("tokens", "shapes", None), [over |-> None])>>,
    {Edit("shapes", "shapes/renk"), Edit("shapes", "shapes"),
     Request("tokens", "shapes", None), Request("tokensDelta", "shapes", None)}, 3)

\* Requests and their cancels, behind work and behind a program that does not
\* return; a file that is not there.
Haste == Roamer("app" :> "app/hovered" @@ "greet" :> "greet/shout",
    <<Hear(Open("app", "app/hovered"), "app")>>,
    {Edit("app", "app/hollered"), Cancel, Request("verb", "app", "run"),
     Request("pull", "app", "none"), Request("text", "tidy", None)}, 3)

Everyone == [gate |-> Gate, soak |-> Soak, edits |-> Edits, pulls |-> Pulls,
             colors |-> Colors, haste |-> Haste]
=============================================================================
