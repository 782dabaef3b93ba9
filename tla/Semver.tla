------------------------------- MODULE Semver -------------------------------
(***************************************************************************)
(* Parse and Compare of internal/semver/semver.go, next to the grammar and *)
(* the precedence of semver.org, version 2.0.0, which they implement.  A   *)
(* text is the sequence of its code points.                                *)
(***************************************************************************)
EXTENDS Integers, FiniteSets, Sequences, SequencesExt

Plus == 43
Dash == 45
Dot == 46
Zero == 48
Digit == 48 .. 57
Letter == 65 .. 90 \cup 97 .. 122  \* unicode.IsLetter up to MaxASCII

Numeric(t) == t # <<>> /\ \A i \in DOMAIN t : t[i] \in Digit

\* strings.Cut at the first sep, and strings.Split at every one.
Before(t, sep) == LET i == SelectInSeq(t, LAMBDA c : c = sep)
                  IN  IF i = 0 THEN t ELSE SubSeq(t, 1, i - 1)
After(t, sep) == SubSeq(t, Len(Before(t, sep)) + 2, Len(t))
Found(t, sep) == \E i \in DOMAIN t : t[i] = sep

Split(t, sep) ==
  LET ends == {i \in DOMAIN t : t[i] = sep} \cup {Len(t) + 1}
      End(k) == IF k = 0 THEN 0
                ELSE CHOOSE e \in ends : Cardinality({x \in ends : x <= e}) = k
  IN  [k \in 1 .. Cardinality(ends) |-> SubSeq(t, End(k - 1) + 1, End(k) - 1)]

\* left < right of two Go strings.
TextLess(a, b) ==
  \E k \in 1 .. Len(b) :
    /\ SubSeq(a, 1, k - 1) = SubSeq(b, 1, k - 1)
    /\ Len(a) = k - 1 \/ (Len(a) >= k /\ a[k] < b[k])

Sign(less, more) == IF less THEN -1 ELSE IF more THEN 1 ELSE 0

----------------------------------------------------------------------------
(* Seeded faults: the definitions below as a plausible bug would have them. *)
(* They are part of no specification; each property is tried on one.        *)

\* Seeded fault: an identifier in a pre-release may have leading zeros.
FaultValidIdentifiers(t, prerelease) ==
  \A k \in DOMAIN Split(t, Dot) :
    LET id == Split(t, Dot)[k]
    IN  id # <<>> /\ \A i \in DOMAIN id : id[i] \in Digit \cup Letter \cup {Dash}

\* Seeded fault: numbers are compared as texts.
FaultCompareNumeric(a, b) == Sign(TextLess(a, b), TextLess(b, a))

----------------------------------------------------------------------------
(* Parse.                                                                  *)

ValidCoreNumber(t) == Numeric(t) /\ (t = <<Zero>> \/ t[1] # Zero)

ValidIdentifiers(t, prerelease) ==
  LET ids == Split(t, Dot)
  IN  \A k \in DOMAIN ids :
        /\ ids[k] # <<>>
        /\ ~(prerelease /\ Numeric(ids[k]) /\ Len(ids[k]) > 1 /\ ids[k][1] = Zero)
        /\ \A i \in DOMAIN ids[k] : ids[k][i] \in Digit \cup Letter \cup {Dash}

WithoutBuild(t) == Before(t, Plus)

Core(t) == Split(Before(WithoutBuild(t), Dash), Dot)

Parses(t) ==
  /\ Found(t, Plus) => ValidIdentifiers(After(t, Plus), FALSE)
  /\ Found(WithoutBuild(t), Dash) => ValidIdentifiers(After(WithoutBuild(t), Dash), TRUE)
  /\ Len(Core(t)) = 3 /\ \A k \in 1 .. 3 : ValidCoreNumber(Core(t)[k])

Version(t) ==
  [core |-> Core(t),
   prerelease |-> IF Found(WithoutBuild(t), Dash)
                  THEN Split(After(WithoutBuild(t), Dash), Dot) ELSE <<>>]

----------------------------------------------------------------------------
(* Compare.                                                                *)

\* strings.TrimLeft(t, "0"), which leaves "0" of zeros only.
Trimmed(t) ==
  LET i == SelectInSeq(t, LAMBDA c : c # Zero)
  IN  IF i = 0 THEN <<Zero>> ELSE SubSeq(t, i, Len(t))

CompareNumeric(a, b) ==
  LET l == Trimmed(a) r == Trimmed(b)
  IN  IF Len(l) # Len(r) THEN Sign(Len(l) < Len(r), TRUE)
      ELSE Sign(TextLess(l, r), TextLess(r, l))

CompareIdentifier(a, b) ==
  IF Numeric(a) /\ Numeric(b) THEN CompareNumeric(a, b)
  ELSE Sign(Numeric(a) \/ (~Numeric(b) /\ TextLess(a, b)),
            Numeric(b) \/ TextLess(b, a))

\* The first comparison of a loop that decides, or 0.
FirstOf(results) ==
  LET i == SelectInSeq(results, LAMBDA r : r # 0)
  IN  IF i = 0 THEN 0 ELSE results[i]

Count(v, w) == IF Len(v) < Len(w) THEN Len(v) ELSE Len(w)

ComparePrerelease(v, w) ==
  IF v = <<>> \/ w = <<>> THEN Sign(v # <<>>, w # <<>>)
  ELSE FirstOf([k \in 1 .. Count(v, w) |-> CompareIdentifier(v[k], w[k])]
               \o <<Sign(Len(v) < Len(w), Len(v) > Len(w))>>)

Compare(v, w) ==
  FirstOf([k \in 1 .. 3 |-> CompareNumeric(v.core[k], w.core[k])]
          \o <<ComparePrerelease(v.prerelease, w.prerelease)>>)

----------------------------------------------------------------------------
(* The reference: semver.org 2.0.0.                                        *)

IsNumber(t) == Numeric(t) /\ (Len(t) > 1 => t[1] # Zero)

\* Items 9 and 10: identifiers joined by dots.
IsIdentifiers(t) ==
  /\ t # <<>> /\ t[1] # Dot /\ t[Len(t)] # Dot
  /\ \A i \in DOMAIN t : t[i] \in Digit \cup Letter \cup {Dash, Dot}
  /\ \A i \in 1 .. Len(t) - 1 : ~(t[i] = Dot /\ t[i + 1] = Dot)

\* Item 9: between two dots no number has leading zeros.
NoLeadingZeros(t) ==
  \A i \in DOMAIN t, j \in DOMAIN t :
    /\ i <= j /\ Numeric(SubSeq(t, i, j))
    /\ i = 1 \/ t[i - 1] = Dot
    /\ j = Len(t) \/ t[j + 1] = Dot
    => IsNumber(SubSeq(t, i, j))

\* Item 2: three numbers joined by dots.
IsCore(t) ==
  \E i \in DOMAIN t, j \in DOMAIN t :
    /\ i < j /\ t[i] = Dot /\ t[j] = Dot
    /\ IsNumber(SubSeq(t, 1, i - 1)) /\ IsNumber(SubSeq(t, i + 1, j - 1))
    /\ IsNumber(SubSeq(t, j + 1, Len(t)))

\* Some division into core, pre-release and build, each of its own form.
InGrammar(t) ==
  \E c \in 0 .. Len(t) : \E p \in c .. Len(t) :
    LET pre == SubSeq(t, c + 1, p)
        build == SubSeq(t, p + 1, Len(t))
    IN  /\ IsCore(SubSeq(t, 1, c))
        /\ pre # <<>> => /\ pre[1] = Dash /\ IsIdentifiers(Tail(pre))
                         /\ NoLeadingZeros(Tail(pre))
        /\ build # <<>> => build[1] = Plus /\ IsIdentifiers(Tail(build))

Value(t) ==
  LET value[i \in 0 .. Len(t)] ==
        IF i = 0 THEN 0 ELSE 10 * value[i - 1] + t[i] - Zero
  IN  value[Len(t)]

\* Item 11.4: numbers by their value and below the others, which are ordered
\* by their code points.
IdentifierPrecedes(a, b) ==
  \/ Numeric(a) /\ Numeric(b) /\ Value(a) < Value(b)
  \/ Numeric(a) /\ ~Numeric(b)
  \/ ~Numeric(a) /\ ~Numeric(b) /\ TextLess(a, b)

\* Item 11: the first difference in the core decides, then whether there is
\* a pre-release, then its first different identifier, then its length.
Precedes(v, w) ==
  LET x == v.prerelease y == w.prerelease IN
  \/ \E k \in 1 .. 3 : /\ Value(v.core[k]) < Value(w.core[k])
                       /\ \A j \in 1 .. k - 1 : v.core[j] = w.core[j]
  \/ /\ v.core = w.core
     /\ \/ x # <<>> /\ y = <<>>
        \/ x # <<>> /\ Len(x) < Len(y) /\ x = SubSeq(y, 1, Len(x))
        \/ \E k \in 1 .. Count(x, y) : /\ IdentifierPrecedes(x[k], y[k])
                                       /\ SubSeq(x, 1, k - 1) = SubSeq(y, 1, k - 1)
=============================================================================
