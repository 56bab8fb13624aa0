------------------------------- MODULE Inventory -------------------------------
(***************************************************************************)
(* The dependencies the SCA scanner reads out of manifests and lockfiles.  *)
(*                                                                         *)
(* A manifest is what its parser tells apart: whether its text is well     *)
(* formed, and its entries, each a record with                             *)
(*   package, version   the package, and the version the entry mentions    *)
(*   form               how the entry mentions it (below)                  *)
(*   place              where the entry stands: "top", "nested", "dev",    *)
(*                      "indirect", "managed", "sibling"                   *)
(*                                                                         *)
(* Forms: "exact"; "range" (a range whose first bound is version);         *)
(* "property" (a placeholder the file's own properties resolve to          *)
(* version); "unresolved" (one they do not); "marked" (an exact version    *)
(* with an environment marker after it); "peers" (a pnpm key that names    *)
(* peer dependencies after the version); "floating" (no version to speak   *)
(* of: a wildcard, a tag, a URL, nothing).                                 *)
(***************************************************************************)
EXTENDS Advisories, Lists

CONSTANTS
  Manifests,   \* the files of a scan
  Base,        \* Base[f]: the file's base name
  Dir,         \* Dir[f]: its directory
  Asset,       \* Asset[f]: kept by the walker for the secrets scanner only
  WellFormed,  \* WellFormed[f]: its parser's unmarshaller accepts the text
  Entries      \* Entries[f]: its entries, in the order of the text

ASSUME EntriesAssumption ==
  \A f \in Manifests : Len(Entries[f]) \in Nat /\ DOMAIN Entries[f] = 1..Len(Entries[f])

\* A file name of the family *.csproj, *.fsproj, *.vbproj, or requirements*.txt,
\* stands for the family.
NpmLocks == {"package-lock.json", "yarn.lock", "pnpm-lock.yaml"}
DotnetProject == "App.csproj"
Accepted ==
  NpmLocks \cup
  {"package.json", "Pipfile.lock", "go.mod", "pom.xml", "requirements.txt", "packages.lock.json",
   "Directory.Packages.props", "Directory.Build.props", "packages.config", DotnetProject}

Accepts(f) == ~Asset[f] /\ Base[f] \in Accepted

\* lockedDirs
LockedDirs(files) == {Dir[f] : f \in {f \in files : Base[f] \in NpmLocks}}
NugetLockedDirs(files) == {Dir[f] : f \in {f \in files : Base[f] = "packages.lock.json"}}

\* A manifest of ranges next to a lockfile of installed versions is not read.
Superseded(f, files) ==
  \/ Base[f] = "package.json" /\ Dir[f] \in LockedDirs(files)
  \/ Base[f] = DotnetProject /\ Dir[f] \in NugetLockedDirs(files)

------------------------------------------------------------------------------
(* The parsers, each with the sequences it may return.                        *)

Dep(ecosystem, f, e, version, direct) ==
  [ecosystem |-> ecosystem, package |-> e.package, version |-> version,
   manifest |-> f, direct |-> direct]

Keep(f, forms, places) ==
  Picked(Entries[f], {n \in DOMAIN Entries[f] :
                        Entries[f][n].form \in forms /\ Entries[f][n].place \in places})

AnyPlace == {"top", "nested", "dev", "indirect", "managed", "sibling"}

\* A range over a Go map: the entries in any order.
AnyOrder(entries) ==
  {[n \in DOMAIN entries |-> entries[p[n]]] : p \in SetToSeqs(DOMAIN entries)}

\* What requirements.txt keeps of "pkg==1.0; python_version < '3'", and pnpm of
\* "/pkg@1.0(peer@2.0)": something OSV has never heard of.
Mangled(version) == <<Tag(0)>> \o version

Deps(f, ecosystem, entries, direct(_)) ==
  [n \in DOMAIN entries |-> Dep(ecosystem, f, entries[n],
     IF entries[n].form \in {"marked", "peers"} THEN Mangled(entries[n].version)
     ELSE entries[n].version, direct(entries[n]))]

Always(e) == TRUE
OnTop(e) == e.place = "top"

NuGetLock(f) ==
  {Deps(f, "NuGet", es, OnTop) : es \in AnyOrder(Keep(f, {"exact"}, {"top", "nested"}))}

\* exactNuGetVersion: only one concrete version can be asked about.
MSBuildPackages(f) == {Deps(f, "NuGet", Keep(f, {"exact"}, AnyPlace), Always)}
PackagesConfig(f) == {Deps(f, "NuGet", Keep(f, {"exact"}, AnyPlace), Always)}
RequirementsTxt(f) == {Deps(f, "PyPI", Keep(f, {"exact", "marked"}, AnyPlace), Always)}

\* cleanSemverSpec: the version a range starts from.
PackageJSON(f) ==
  LET forms == {"exact", "range"} IN
  {Deps(f, "npm", es \o devs, Always) :
     es \in AnyOrder(Keep(f, forms, {"top"})), devs \in AnyOrder(Keep(f, forms, {"dev"}))}

\* Workspaces ("sibling") have no node_modules/ in their key; an entry below
\* another one's node_modules is transitive.
PackageLockJSON(f) ==
  {Deps(f, "npm", es, OnTop) : es \in AnyOrder(Keep(f, {"exact"}, {"top", "nested"}))}

YarnLock(f) == {Deps(f, "npm", Keep(f, {"exact"}, AnyPlace), Always)}
PnpmLock(f) == {Deps(f, "npm", es, Always) : es \in AnyOrder(Keep(f, {"exact", "peers"}, AnyPlace))}

PipfileLock(f) ==
  {Deps(f, "PyPI", es \o devs, OnTop) :
     es \in AnyOrder(Keep(f, {"exact"}, {"top"})), devs \in AnyOrder(Keep(f, {"exact"}, {"dev"}))}

GoMod(f) == {Deps(f, "Go", Keep(f, {"exact"}, AnyPlace), LAMBDA e : e.place # "indirect")}

\* resolveMavenVersion reduces a range to its first bound, installed or not.
PomXML(f) ==
  LET forms == {"exact", "range", "property"} IN
  {Deps(f, "Maven", Keep(f, forms, {"top"}) \o Keep(f, forms, {"managed"}), OnTop)}

\* parseLockFileWithErr: the dependencies it may return.  (A line format is ill
\* formed when a line is too long for the line reader, which then stops there.)
Parsed(f) ==
  LET base == Base[f] IN
  IF ~WellFormed[f] THEN {<<>>}
  ELSE CASE base = "package-lock.json" -> PackageLockJSON(f)
         [] base = "package.json" -> PackageJSON(f)
         [] base = "yarn.lock" -> YarnLock(f)
         [] base = "pnpm-lock.yaml" -> PnpmLock(f)
         [] base = "Pipfile.lock" -> PipfileLock(f)
         [] base = "go.mod" -> GoMod(f)
         [] base = "pom.xml" -> PomXML(f)
         [] base = "requirements.txt" -> RequirementsTxt(f)
         [] base = "packages.lock.json" -> NuGetLock(f)
         [] base = "packages.config" -> PackagesConfig(f)
         [] OTHER -> MSBuildPackages(f)

\* The parsers that return the unmarshaller's error; the others have none to
\* return (line formats) or return no dependencies instead.
ParseFails(f) ==
  /\ ~WellFormed[f]
  /\ Base[f] \in {"package-lock.json", "package.json", "packages.lock.json", "packages.config",
                  "Directory.Packages.props", "Directory.Build.props", DotnetProject}

DepKey(d) == <<d.ecosystem, d.package, d.version, d.manifest>>

\* deduplicateDeps, per manifest.
Deduplicated(deps) == FirstBy(deps, DepKey)
==============================================================================
