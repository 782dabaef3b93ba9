---------------------------- MODULE OcrPackage ----------------------------
(***************************************************************************)
(* WritePackage and LoadPackage of pluginapi/ocr/protocol/package.go, at   *)
(* once and while the executable they are about is built anew: replaced by *)
(* another file under its name, rewritten in place, or removed.            *)
(*                                                                         *)
(* Opening a name gives a handle of the file that has it then, which the   *)
(* handle keeps; reading a handle sees what the file holds at that moment. *)
(* A file is two pieces, each of some build, and its build settings stand  *)
(* in the first.  SHA-256 is taken to be injective: a digest is the        *)
(* content it is of.                                                       *)
(***************************************************************************)
EXTENDS Semver

CONSTANTS
  Build,        \* the builds of the executable
  ForHost,      \* those whose GOOS and GOARCH are the ones asked for
  VersionText,  \* the versions WritePackage may be given
  Others,       \* the versions a loaded one is compared with
  MaxVersion,   \* the longest version a manifest of 65536 bytes has room for
  MaxRebuild,   \* bound on what happens to the executable meanwhile
  None,         \* no file, no manifest
  Torn          \* a manifest that is not written to its end

ASSUME PackageAssumption ==
  /\ ForHost \subseteq Build
  /\ MaxVersion \in Nat /\ MaxRebuild \in Nat /\ None \notin 0 .. MaxRebuild

\* A text is the sequence of its code points.
ASSUME VersionAssumption == VersionText \subseteq Seq(Nat) /\ Others \subseteq Seq(Nat)

Pieces == 2
File == 0 .. MaxRebuild
Proc == {"write", "load"}

\* What LoadPackage asks of the executable and WritePackage does not: that it
\* is reached without leaving the directory of the manifest (os.Root follows no
\* link out of it and no absolute one), is a regular file of 1 to 512 << 20
\* bytes, and has a permission bit to be executed, or is for Windows.
Trait == {"local", "sized", "runnable"}

VARIABLES
  name,      \* external: the file under the executable's name
  content,   \* external: what each file holds, a build per piece
  traits,    \* external: what of Trait it has, which no build changes
  rebuilds,  \* external: how often the executable was touched, or will not be
  version,   \* the parameter of WritePackage
  manifest,  \* the manifest file: None, Torn, or a version and a digest
  pc,        \* where WritePackage and LoadPackage are
  ended,     \* whether the context of each has ended
  handle,    \* the executable each has open
  sum,       \* what hashReader has read
  got,       \* the manifest LoadPackage decoded
  result,    \* what each returned
  torn,      \* the open file of LoadPackage was rewritten (history)
  still      \* not touched since WritePackage began, which was over when
             \* LoadPackage began (history)

fileVars == <<name, content, traits, rebuilds>>
procVars == <<pc, ended, handle, sum, got, result>>
historyVars == <<torn, still>>
vars == <<fileVars, version, manifest, procVars, historyVars>>

Manifest == [version : VersionText, sha256 : [1 .. Pieces -> Build]]

ASSUME ManifestAssumption == None \notin Manifest /\ Torn \notin Manifest

TypeOK ==
  /\ name \in File \cup {None}
  /\ content \in [File -> [1 .. Pieces -> Build]]
  /\ traits \subseteq Trait /\ rebuilds \in 0 .. MaxRebuild
  /\ version \in VersionText
  /\ manifest \in Manifest \cup {None, Torn}
  /\ pc \in [Proc -> {"start", "settings", "open", "hash", "hashed", "create",
                      "fill", "done"}]
  /\ ended \in [Proc -> BOOLEAN]
  /\ handle \in [Proc -> File \cup {None}]
  /\ sum \in [Proc -> Seq(Build)] /\ \A p \in Proc : Len(sum[p]) <= Pieces
  /\ got \in Manifest \cup {None}
  /\ result \in [Proc -> {"none", "ok", "cancelled", "missing", "settings", "version",
                          "manifest", "limit", "escape", "size", "permission",
                          "checksum"}]
  /\ torn \in BOOLEAN /\ still \in BOOLEAN

Init ==
  /\ name = 0 /\ rebuilds \in File /\ traits \in SUBSET Trait
  /\ content \in {[f \in File |-> [k \in 1 .. Pieces |-> b]] : b \in Build}
  /\ version \in VersionText
  /\ manifest \in {None} \cup [version : VersionText, sha256 : {content[0]}]
  /\ pc = [p \in Proc |-> "start"]
  /\ ended = [p \in Proc |-> FALSE]
  /\ handle = [p \in Proc |-> None]
  /\ sum = [p \in Proc |-> <<>>]
  /\ got = None
  /\ result = [p \in Proc |-> "none"]
  /\ torn = FALSE /\ still = FALSE

----------------------------------------------------------------------------
(* Steps of both.                                                          *)

Go(p, next) == pc' = [pc EXCEPT ![p] = next] /\ UNCHANGED result

Return(p, r) ==
  /\ pc' = [pc EXCEPT ![p] = "done"]
  /\ result' = [result EXCEPT ![p] = r]

\* An open that finds no file fails; one that finds it keeps it.
Open(p, at, next) ==
  /\ pc[p] = at
  /\ \/ name = None /\ Return(p, "missing") /\ UNCHANGED handle
     \/ name # None /\ Go(p, next) /\ handle' = [handle EXCEPT ![p] = name]

\* buildinfo.Read: the settings of a file are those of the asked host.
Settings(f) == content[f][1] \in ForHost

----------------------------------------------------------------------------
(* Seeded faults: the definitions below as a plausible bug would have them. *)
(* They are part of no specification; each property is tried on one.        *)

\* Seeded fault: the settings are read by name, like those of WritePackage.
FaultLoadSettings ==
  /\ pc["load"] = "settings"
  /\ Return("load", IF name # None /\ Settings(name) THEN "ok" ELSE "settings")
  /\ UNCHANGED <<fileVars, version, manifest, ended, handle, sum, got, historyVars>>

\* Seeded fault: the manifest is written without Validate.
FaultValidated == TRUE

----------------------------------------------------------------------------

\* hashReader: the context is looked at before every Read, the one that
\* returns io.EOF included.
Hash(p) ==
  /\ pc[p] = "hash"
  /\ \/ /\ ended[p]
        /\ Return(p, "cancelled")
        /\ UNCHANGED sum
     \/ /\ ~ended[p] /\ Len(sum[p]) < Pieces
        /\ sum' = [sum EXCEPT ![p] = Append(@, content[handle[p]][Len(@) + 1])]
        /\ UNCHANGED <<pc, result>>
     \/ /\ ~ended[p] /\ Len(sum[p]) = Pieces
        /\ Go(p, "hashed")
        /\ UNCHANGED sum
  /\ UNCHANGED <<fileVars, version, manifest, ended, handle, got, historyVars>>

EndContext(p) ==
  /\ ~ended[p] /\ pc[p] # "done"
  /\ ended' = [ended EXCEPT ![p] = TRUE]
  /\ UNCHANGED <<fileVars, version, manifest, pc, handle, sum, got, result, historyVars>>

----------------------------------------------------------------------------
(* WritePackage.                                                           *)

\* buildinfo.ReadFile opens, reads and closes the file under the name.
WriteSettings ==
  /\ pc["write"] = "start"
  /\ \/ name = None /\ Return("write", "missing")
     \/ name # None /\ ~Settings(name) /\ Return("write", "settings")
     \/ name # None /\ Settings(name) /\ Go("write", "open")
  /\ still' = (pc["load"] = "start")
  /\ UNCHANGED <<fileVars, version, manifest, ended, handle, sum, got, torn>>

\* HashFile opens it again.
WriteOpens ==
  /\ Open("write", "open", "hash")
  /\ UNCHANGED <<fileVars, version, manifest, ended, sum, got, historyVars>>

\* Validate: of what it checks only the version is not given by the code.
Validated == Parses(version)

\* os.WriteFile truncates the manifest, then fills it, and may fail at that.
WriteCreates ==
  /\ pc["write"] = "hashed"
  /\ \/ /\ ~Validated
        /\ Return("write", "version")
        /\ UNCHANGED manifest
     \/ /\ Validated
        /\ Go("write", "fill")
        /\ manifest' = Torn
  /\ UNCHANGED <<fileVars, version, ended, handle, sum, got, historyVars>>

WriteFills ==
  /\ pc["write"] = "fill"
  /\ \/ /\ Return("write", "ok")
        /\ manifest' = [version |-> version, sha256 |-> sum["write"]]
     \/ /\ Return("write", "manifest")
        /\ UNCHANGED manifest
  /\ UNCHANGED <<fileVars, version, ended, handle, sum, got, historyVars>>

----------------------------------------------------------------------------
(* LoadPackage.                                                            *)

\* A manifest with this version is not over the limit.  All that WritePackage
\* writes but the version is short; it looks at no length itself.
Fits(v) == Len(v) <= MaxVersion

\* The manifest is read up to its limit, decoded and validated.
LoadManifest ==
  /\ pc["load"] = "start"
  /\ \/ /\ manifest \in {None, Torn}
        /\ Return("load", "manifest")
        /\ UNCHANGED got
     \/ /\ manifest \notin {None, Torn} /\ ~Fits(manifest.version)
        /\ Return("load", "limit")
        /\ UNCHANGED got
     \/ /\ manifest \notin {None, Torn} /\ Fits(manifest.version)
        /\ got' = manifest
        /\ IF Parses(manifest.version) THEN Go("load", "open")
           ELSE Return("load", "version")
  /\ still' = (still /\ result["write"] = "ok")
  /\ UNCHANGED <<fileVars, version, manifest, ended, handle, sum, torn>>

\* The executable is opened below os.OpenRoot and looked at.
LoadOpens ==
  /\ \/ (name = None \/ traits = Trait) /\ Open("load", "open", "hash")
     \/ /\ pc["load"] = "open" /\ name # None /\ UNCHANGED handle
        /\ \/ "local" \notin traits /\ Return("load", "escape")
           \/ /\ "local" \in traits /\ "sized" \notin traits
              /\ Return("load", "size")
           \/ /\ {"local", "sized"} \subseteq traits /\ "runnable" \notin traits
              /\ Return("load", "permission")
  /\ UNCHANGED <<fileVars, version, manifest, ended, sum, got, historyVars>>

LoadCompares ==
  /\ pc["load"] = "hashed"
  /\ IF sum["load"] = got.sha256 THEN Go("load", "settings")
     ELSE Return("load", "checksum")
  /\ UNCHANGED <<fileVars, version, manifest, ended, handle, sum, got, historyVars>>

LoadSettings ==
  /\ pc["load"] = "settings"
  /\ Return("load", IF Settings(handle["load"]) THEN "ok" ELSE "settings")
  /\ UNCHANGED <<fileVars, version, manifest, ended, handle, sum, got, historyVars>>

----------------------------------------------------------------------------
(* External: what happens to the executable.                               *)

Touch ==
  /\ rebuilds < MaxRebuild /\ rebuilds' = rebuilds + 1
  /\ still' = FALSE
  /\ UNCHANGED <<traits, version, manifest, procVars>>

\* Another file takes its name; those that have the old one open keep it.
Replace(b) ==
  /\ Touch
  /\ name' = rebuilds'
  /\ content' = [content EXCEPT ![name'] = [k \in 1 .. Pieces |-> b]]
  /\ UNCHANGED torn

\* A piece of the file is rewritten, under whoever has it open.
Rewrite(b) ==
  /\ Touch
  /\ name # None
  /\ \E k \in 1 .. Pieces : content' = [content EXCEPT ![name][k] = b]
  /\ torn' = (torn \/ handle["load"] = name)
  /\ UNCHANGED name

Unlink ==
  /\ Touch
  /\ name # None /\ name' = None
  /\ UNCHANGED <<content, torn>>

----------------------------------------------------------------------------

Next ==
  \/ WriteSettings \/ WriteOpens \/ WriteCreates \/ WriteFills
  \/ LoadManifest \/ LoadOpens \/ LoadCompares \/ LoadSettings
  \/ \E p \in Proc : Hash(p) \/ EndContext(p)
  \/ \E b \in Build : Replace(b) \/ Rewrite(b)
  \/ Unlink

Spec == Init /\ [][Next]_vars

----------------------------------------------------------------------------

\* WritePackage refuses a version just when it is none to semver.org.
ParseIsGrammar ==
  /\ result["write"] = "version" => ~InGrammar(version)
  /\ pc["write"] = "fill" => InGrammar(version)

\* The version of a package that was loaded takes its place among any others
\* by the precedence of semver.org, whatever the lengths and the kinds of the
\* identifiers: a total order, but for builds.
CompareIsPrecedence ==
  result["load"] = "ok" => \A t \in Others : Parses(t) =>
    LET v == Version(got.version) w == Version(t)
    IN  /\ Compare(v, w) = Sign(Precedes(v, w), Precedes(w, v))
        /\ ~Precedes(v, w) /\ ~Precedes(w, v) => v = w

\* What LoadPackage accepts is one executable with the digest of the manifest
\* and the settings of the host, though WritePackage may have taken the two
\* from different builds and the name may have changed hands since; unless
\* the very file it reads is rewritten under it.
LoadedIsOneBuild ==
  result["load"] = "ok" /\ ~torn =>
    got.sha256 = content[handle["load"]] /\ Settings(handle["load"])

\* What WritePackage wrote of an executable nobody touched is loaded, unless the
\* context ends first, just when it has what LoadPackage alone asks for: a
\* manifest within the limit, and an executable that is in the directory, of a
\* size that is accepted, and may be executed.  In all else, the version, the
\* digest and the settings, the two hold it against the same conditions.
WrittenLoads ==
  still /\ pc["load"] = "done" /\ result["load"] # "cancelled" =>
    (result["load"] = "ok" <=> Fits(version) /\ traits = Trait)
=============================================================================
