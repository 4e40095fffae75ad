----------------------------- MODULE Extraction -----------------------------
(***************************************************************************)
(* Extraction of one file (extract/dispatch.rs): the extractor of its      *)
(* language collects the facts, repeated identities are dropped, and facts *)
(* that break the contract are refused instead of being returned.          *)
(***************************************************************************)
EXTENDS FileSubgraph

CONSTANTS Sources, \* the files that may be extracted
          Rules    \* the registered query-binding rules

VARIABLES tree, lang, file, path, \* the parsed source
          facts, verdict          \* what its extraction came to

vars == <<tree, lang, file, path, facts, verdict>>

Support == INSTANCE ExtractSupport
Rust == INSTANCE RustExtractor
EcmaScript == INSTANCE EcmaScriptExtractor
Python == INSTANCE PythonExtractor
Jvm == INSTANCE JvmExtractors
CFamily == INSTANCE CFamilyExtractors
Mobile == INSTANCE MobileExtractors
Scripting == INSTANCE ScriptingExtractors
Systems == INSTANCE SystemsExtractors
Document == INSTANCE DocumentExtractors

Init ==
  /\ \E source \in Sources :
       tree = source.tree /\ lang = source.lang /\ file = source.file /\ path = source.path
  /\ facts = <<>>
  /\ verdict = "none"

(* normalize_and_validate. *)
Keep(found) ==
  /\ verdict = "none"
  /\ \E kept \in {Support!DedupeSymbolIdentities(found)} :
       /\ facts' = kept
       /\ verdict' = IF Support!ValidInContext(kept, Support!SourceLen)
                     THEN "facts" ELSE "malformed"
  /\ UNCHANGED <<tree, lang, file, path>>

(* extract_file_with_bindings: an extractor for every language.            *)
ExtractRust == lang = "rust" /\ Keep(Rust!ExtractFacts(Rules))
ExtractEcmaScript == lang \in {"typescript", "javascript"} /\ Keep(EcmaScript!ExtractFacts(Rules))
ExtractPython == lang = "python" /\ Keep(Python!ExtractFacts(Rules))
ExtractJava == lang = "java" /\ Keep(Jvm!JavaFacts)
ExtractGo == lang = "go" /\ Keep(Systems!GoFacts)
ExtractKotlin == lang = "kotlin" /\ Keep(Jvm!KotlinFacts)
ExtractSwift == lang = "swift" /\ Keep(Mobile!SwiftFacts)
ExtractSolidity == lang = "solidity" /\ Keep(Systems!SolidityFacts)
ExtractDart == lang = "dart" /\ Keep(Mobile!DartFacts)
ExtractCpp == lang = "cpp" /\ Keep(CFamily!CppFacts)
ExtractC == lang = "c" /\ Keep(CFamily!CFacts)
ExtractScala == lang = "scala" /\ Keep(Jvm!ScalaFacts)
ExtractPhp == lang = "php" /\ Keep(Scripting!PhpFacts)
ExtractCSharp == lang = "csharp" /\ Keep(CFamily!CSharpFacts)
ExtractPascal == lang = "pascal" /\ Keep(Systems!PascalFacts)
ExtractLua == lang \in {"lua", "luau"} /\ Keep(Scripting!LuaFacts)
ExtractRuby == lang = "ruby" /\ Keep(Scripting!RubyFacts)
ExtractSql == lang = "sql" /\ Keep(Document!SqlFacts)
ExtractHcl == lang = "hcl" /\ Keep(Document!HclFacts)
ExtractShell == lang = "shell" /\ Keep(Scripting!ShellFacts)
ExtractSvelte == lang = "svelte" /\ Keep(Document!SvelteFacts)

Finished == verdict # "none" /\ UNCHANGED vars

Next ==
  \/ ExtractRust \/ ExtractEcmaScript \/ ExtractPython \/ ExtractJava
  \/ ExtractGo \/ ExtractKotlin \/ ExtractSwift \/ ExtractSolidity
  \/ ExtractDart \/ ExtractCpp \/ ExtractC \/ ExtractScala
  \/ ExtractPhp \/ ExtractCSharp \/ ExtractPascal \/ ExtractLua
  \/ ExtractRuby \/ ExtractSql \/ ExtractHcl \/ ExtractShell
  \/ ExtractSvelte
  \/ Finished

Spec == Init /\ [][Next]_vars

(***************************************************************************)
(* Properties.                                                             *)
(***************************************************************************)
Extracted == verdict # "none"

(* Every source has facts that meet the contract of graph/validate.rs: the *)
(* passes agree on where scopes, names and definitions are, and no source  *)
(* is lost because two of them do not.                                     *)
FactsMeetTheContract == verdict # "malformed"

(* No byte of a source is a use of two kinds, or counted twice as one: the *)
(* passes that collect calls, reads, writes and imports separately agree   *)
(* on which of them a name belongs to.                                     *)
UseHasOneRole ==
  Extracted =>
    \A m, n \in {i \in DOMAIN facts.references :
                   facts.references[i].role \in {"Call", "Read", "Write", "Import"}} :
      facts.references[m].byte = facts.references[n].byte => m = n

(* What a place declares and what uses it, by the marks of SampleSources:  *)
(* locals are numbered from 1 and definitions from FirstDefinition.        *)
FirstDefinition == 100

IsUse(r, place) ==
  /\ r.role \in {"Call", "Read", "Write", "TypeRef"}
  /\ tree[place].mark > 0
  /\ \E use \in DOMAIN tree :
       tree[use].start = r.byte /\ tree[use].mark = -tree[place].mark

(* A name that the language binds to a local resolves to exactly that      *)
(* local, not to an outer one of the same name, a definition or another    *)
(* file, whichever passes the scopes, bindings and references came from.   *)
LocalsAreFound ==
  Extracted =>
    \A r \in Range(facts.references), place \in DOMAIN tree :
      tree[place].mark < FirstDefinition /\ IsUse(r, place) =>
        \E outcome \in {Outcome(facts, r)} :
          /\ outcome.kind = "edge"
          /\ outcome.value.to.file = file
          /\ outcome.value.to.at[3] = tree[place].start

(* A name that the language binds to a definition of the file resolves to  *)
(* the symbol of that definition (resolve/scope_graph.rs, "Same-file       *)
(* top-level definition").                                                 *)
DefinitionsAreFound ==
  Extracted =>
    \A r \in Range(facts.references), place \in DOMAIN tree :
      tree[place].mark > FirstDefinition /\ IsUse(r, place) =>
        \E outcome \in {Outcome(facts, r)}, s \in Range(facts.symbols) :
          /\ outcome.kind = "edge"
          /\ outcome.value.to = s.id
          /\ s.name = Support!Text(place)
          /\ Covers(s.span, tree[place].start)

(* What a name written in a source means is what the language says.        *)
NamesAreFound == LocalsAreFound /\ DefinitionsAreFound
=============================================================================
