----------------------------- MODULE MCM3uParser -----------------------------
(***************************************************************************)
(* M3uParser with entries for each kind of key but one, two of which have  *)
(* the same tvg-id and different numbers, numbers that sort differently as *)
(* text, and two urls that differ in the host only.                        *)
(***************************************************************************)
EXTENDS M3uParser

Entry(id, number, name) == [tvgId |-> id, number |-> number, name |-> name]
MCEntries == { Entry("", "10", "Bravo"), Entry("", "9", "ALPHA"),
               Entry("", "", "Alpha"), Entry("Tango.de", "", "Bravo"),
               Entry("tango-de", "9", "ALPHA"), Entry("", "", "?") }

\* The values ascend as the normalised texts do: "10" is before "9" and
\* "alpha" before "bravo".
MCNormal == [t \in {"", "?"} |-> 0] @@ ("10" :> 1) @@ ("9" :> 2)
              @@ [t \in {"ALPHA", "Alpha"} |-> 3] @@ ("Bravo" :> 4)
              @@ [t \in {"Tango.de", "tango-de"} |-> 5]
MCLower == ("?" :> 1) @@ [t \in {"ALPHA", "Alpha"} |-> 2] @@ ("Bravo" :> 3)
MCNumeric == ("9" :> 9) @@ ("10" :> 10)
MCPathKey == [u \in {"one", "mirror", "refused"} |-> 1]
=============================================================================
