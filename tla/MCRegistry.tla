----------------------------- MODULE MCRegistry ------------------------------
(* Instances of Registry for TLC.                                             *)
EXTENDS Registry, TLC

CONSTANTS w1, w2, w3, w4, h1, h2, h3, foreign

Patch(addr, expected, shape, code) ==
  [addr |-> addr, expected |-> expected, shape |-> shape, code |-> code,
   exclusive |-> FALSE, external |-> FALSE]

Jump1     == Patch(1, w1, "jump", h1)
Jump2     == Patch(1, w1, "jump", h2)
Odd       == Patch(1, w3, "jump", h3)     \* matches the text, by another word
Alone1    == [Patch(1, w1, "jump", w4) EXCEPT !.exclusive = TRUE]
Rewrite   == Patch(1, w1, "rewrite", w2)
Call1     == Patch(1, w1, "call", h1)
Jump3     == Patch(2, w1, "jump", h1)
Alone2    == [Patch(2, w1, "jump", h2) EXCEPT !.exclusive = TRUE]
Wrong     == Patch(2, w2, "jump", h1)     \* not what the text holds
Export    == [Patch(7, NoWord, "jump", h1) EXCEPT !.external = TRUE]

Config(delta, backend) ==
  [delta |-> delta, text |-> TRUE, data |-> TRUE, backend |-> backend,
   allow |-> backend = "auto"]

MCWords == {w1, w2, w3, w4, h1, h2, h3, foreign}
\* w1, w2 and w3 are words of the image, w4 is what the loader may make of each
\* (and w1 of w3).  At 1 it keeps w1, at 11 it made w4 of it, which cannot run
\* from a stub.
MCForms == [w \in MCWords |-> CASE w \in {w1, w2} -> {w4} [] w = w3 -> {w1, w4} [] OTHER -> {}]

MCDescsCore   == {Jump1, Jump2, Odd, Alone1}
MCConfigsCore == {Config(0, "direct"), Config(10, "fp")}
MCTextCore    == 1 :> w1 @@ 11 :> w4

MCDescsFaults   == {Jump1, Jump2, Export}
MCConfigsFaults == {Config(0, "auto")}
MCTextFaults    == 1 :> w1 @@ 7 :> w2

\* Three shapes at one address, and stubs that are never freed: two slots run out.
MCDescsForeign   == {Jump1, Call1, Rewrite}
MCConfigsForeign == {Config(0, "direct")}
MCTextForeign    == 1 :> w1

MCDescsAgain   == {Jump1}
MCConfigsAgain == {Config(0, "direct"), Config(10, "direct")}

\* A clash at 1 fills a table of one collision; the one at 2 comes after it.
MCDescsCapped == {Jump1, Rewrite, Jump3, Alone2}
MCTextPic     == 1 :> w1 @@ 2 :> w1

MCDescsWhole == {Jump1, Wrong}
=============================================================================
