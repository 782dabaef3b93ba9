--------------------------- MODULE MCOcrPackage ---------------------------
(* Two builds, one of them for the host, and the texts WritePackage is *)
(* given as versions, for TLC.                                         *)
EXTENDS OcrPackage

CONSTANTS right, wrong

MCBuild == {right, wrong}

\* "1.0.0", and "1.0", which is no version: with these the executable may be
\* touched meanwhile.
Plain == {<<49, 46, 48, 46, 48>>, <<49, 46, 48>>}

\* "1.0.0-aaaaaa", one character too long for a manifest; no other version is.
Long == <<49, 46, 48, 46, 48, Dash, 97, 97, 97, 97, 97, 97>>
MCMaxVersion == Len(Long) - 1

\* Behind "0.10.0-" every text of at most three characters out of ".-+01a";
\* behind "0.10.0", "01.0.0", "1.0" and "1.0.0.0" those of at most two; and an
\* underscore, a blank and an e with an accent where a letter may stand.
Tails(n) == UNION {[1 .. k -> {Dot, Dash, Plus, 48, 49, 97}] : k \in 0 .. n}
Spelled ==
  {<<48, 46, 49, 48, 46, 48, Dash>> \o t : t \in Tails(3)}
  \cup {c \o t : c \in {<<48, 46, 49, 48, 46, 48>>, <<48, 49, 46, 48, 46, 48>>,
                        <<49, 46, 48>>, <<49, 46, 48, 46, 48, 46, 48>>}, t \in Tails(2)}
  \cup {<<49, 46, 48, 46, 48, Dash, c>> : c \in {95, 32, 233}}

\* Versions that differ in a number of two digits, or in what follows it.
Ordered ==
  {<<49, 46>> \o m \o <<46, 48>> \o t :
     m \in {<<57>>, <<49, 48>>},
     t \in {<<>>, <<Plus, 97>>} \cup
           {<<Dash>> \o x : x \in {<<57>>, <<49, 48>>, <<97>>, <<65>>, <<97, 97>>,
              <<Dash>>, <<49, 97>>, <<97, Dot, 57>>, <<97, Dot, 49, 48>>,
              <<97, Dot, 98>>, <<49, 48, Dot, 48>>}}}

MCVersionText == Plain \cup {Long} \cup Spelled \cup Ordered

\* Of what LoadPackage alone asks for, one thing is missing at most; versions
\* that are not plain are written and loaded undisturbed.
MCInit ==
  /\ Init
  /\ manifest # None => manifest.version \in Plain \cup {Long}
  /\ \A t, u \in Trait \ traits : t = u
  /\ IF version \in Plain THEN rebuilds = 0
     ELSE rebuilds = MaxRebuild /\ manifest = None /\ traits = Trait /\ Settings(0)

MCSpec == MCInit /\ [][Next]_vars
=============================================================================
