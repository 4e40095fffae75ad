----------------------------- MODULE SymbolIds -----------------------------
(***************************************************************************)
(* The written form of an identity (src/symbol): descriptors rendered with *)
(* their suffixes, names escaped where they need it, the parser of that    *)
(* form, and the wire form that carries the coordinates which the string   *)
(* leaves out.                                                             *)
(*                                                                         *)
(* A text is a sequence of characters.  The words "local" and "codegraph"  *)
(* stand for their letters, as one character each, "tick" for a backtick.  *)
(* An absent option is <<>>; a parse is a record of an error, empty on     *)
(* success, the value and the rest of the text.                            *)
(***************************************************************************)
EXTENDS Integers, Sequences, FiniteSets, SequencesExt

(* Characters in the order of their bytes; one letter stands for each      *)
(* letter and digit.                                                       *)
Characters ==
  <<" ", "!", "#", "$", "(", ")", "+", "-", ".", "/", ":", "[", "]", "_", "tick", "a", "b",
    "codegraph", "local">>

Order(c) == CHOOSE n \in DOMAIN Characters : Characters[n] = c

IsSimpleIdentChar(c) == c \in {"a", "b", "codegraph", "local", "_", "+", "-", "$"}

IsSimple(text) == \A c \in Range(text) : IsSimpleIdentChar(c)

(***************************************************************************)
(* Descriptors.                                                            *)
(***************************************************************************)
Kinds ==
  <<"Namespace", "Type", "Term", "Method", "TypeParameter", "Parameter", "Meta", "Macro">>

KindRank(d) == CHOOSE n \in DOMAIN Kinds : Kinds[n] = d.kind

Descriptor(kind, name) == [kind |-> kind, name |-> name, disambiguator |-> <<>>]
Method(name, disambiguator) ==
  [kind |-> "Method", name |-> name, disambiguator |-> disambiguator]

(* A disambiguator has no escaped form: only a simple one is made.         *)
MethodDisambiguator(text) ==
  IF IsSimple(text) THEN [error |-> "", value |-> text]
  ELSE [error |-> "InvalidDisambiguator"]

Suffix(kind) ==
  CASE kind = "Namespace" -> "/" [] kind = "Type" -> "#" [] kind = "Term" -> "."
    [] kind = "Meta" -> ":" [] kind = "Macro" -> "!"

NeverDoubles(text) == text   \* a name written as it is: its backticks end it

Doubled(text) ==
  FlattenSeq([n \in DOMAIN text |->
                IF text[n] = "tick" THEN <<"tick", "tick">> ELSE <<text[n]>>])

PushIdent(ident) ==
  IF ident # <<>> /\ IsSimple(ident) THEN ident ELSE <<"tick">> \o Doubled(ident) \o <<"tick">>

Render(d) ==
  CASE d.kind = "Method" -> PushIdent(d.name) \o <<"(">> \o d.disambiguator \o <<")", ".">>
    [] d.kind = "TypeParameter" -> <<"[">> \o PushIdent(d.name) \o <<"]">>
    [] d.kind = "Parameter" -> <<"(">> \o PushIdent(d.name) \o <<")">>
    [] OTHER -> Append(PushIdent(d.name), Suffix(d.kind))

(***************************************************************************)
(* Identities.                                                             *)
(***************************************************************************)
Package(manager, name, version) ==
  [manager |-> manager, name |-> name, version |-> version]

UnknownPackage == Package(<<>>, <<>>, <<>>)

Global(package, lang, descriptors) ==
  [variant |-> "Global", scheme |-> <<"codegraph">>, package |-> package, lang |-> lang,
   descriptors |-> descriptors]

Local(file, id) == [variant |-> "Local", file |-> file, id |-> id]

WithPackage(id, package) ==
  IF id.variant = "Global" THEN [id EXCEPT !.package = package] ELSE id

Trim(text) ==
  LET inner == {n \in DOMAIN text : text[n] # " "}
  IN  IF inner = {} THEN <<>> ELSE SubSeq(text, Min(inner), Max(inner))

ScipField(text) == IF Trim(text) = <<>> THEN <<".">> ELSE Trim(text)

RenderPackage(p) ==
  ScipField(p.manager) \o <<" ">> \o ScipField(p.name) \o <<" ">> \o ScipField(p.version)

ToScip(id) ==
  IF id.variant = "Local" THEN <<"local", " ">> \o id.id
  ELSE id.scheme \o <<" ">> \o RenderPackage(id.package) \o <<" ">>
         \o FlattenSeq([n \in DOMAIN id.descriptors |-> Render(id.descriptors[n])])

(***************************************************************************)
(* The parser.                                                             *)
(***************************************************************************)
Failed(error) == [error |-> error, value |-> <<>>, rest |-> <<>>]
Parsed(value, rest) == [error |-> "", value |-> value, rest |-> rest]

(* The rest of a parse that goes on only when its first part succeeded. *)
Then(parse, Continue(_)) ==
  CHOOSE result \in {IF p.error # "" THEN p ELSE Continue(p) : p \in {parse}} : TRUE

From(text, n) == SubSeq(text, n, Len(text))

StartsWith(text, c) == text # <<>> /\ Head(text) = c

(* A quoted identifier ends at a backtick that no other follows. *)
ParseQuoted(s) ==
  LET Preceded(c, parse) == [parse EXCEPT !.value = <<c>> \o @]
      scan[n \in 2 .. Len(s) + 1] ==
        IF n > Len(s) THEN Failed("UnterminatedQuote")
        ELSE IF s[n] # "tick" THEN Preceded(s[n], scan[n + 1])
        ELSE IF n < Len(s) /\ s[n + 1] = "tick" THEN Preceded("tick", scan[n + 2])
        ELSE Parsed(<<>>, From(s, n + 1))
  IN  scan[2]

ParseBare(s) ==
  LET end == Min({n \in DOMAIN s : ~IsSimpleIdentChar(s[n])} \cup {Len(s) + 1})
  IN  IF end = 1 THEN Failed("ExpectedIdent")
      ELSE Parsed(SubSeq(s, 1, end - 1), From(s, end))

ParseIdent(s) == IF StartsWith(s, "tick") THEN ParseQuoted(s) ELSE ParseBare(s)

(* What precedes the first such character, and what follows it. *)
SplitOnce(s, c) ==
  LET found == {n \in DOMAIN s : s[n] = c}
  IN  IF found = {} THEN Failed("UnknownDescriptor")
      ELSE Parsed(SubSeq(s, 1, Min(found) - 1), From(s, Min(found) + 1))

(* A descriptor that ends with this character and leaves what follows it. *)
ClosedBy(c, descriptor, s) ==
  IF StartsWith(s, c) THEN Parsed(descriptor, Tail(s)) ELSE Failed("UnknownDescriptor")

MethodOf(name, disambiguator, s) ==
  IF disambiguator.error # "" THEN Failed(disambiguator.error)
  ELSE ClosedBy(".", Method(name, disambiguator.value), s)

Suffixed == {"Namespace", "Type", "Term", "Meta", "Macro"}

(* An identifier, then the character that decides what it names. *)
ParseSuffixed(ident) ==
  IF StartsWith(ident.rest, "(")
  THEN Then(SplitOnce(Tail(ident.rest), ")"),
            LAMBDA p : MethodOf(ident.value, MethodDisambiguator(p.value), p.rest))
  ELSE LET kinds == {k \in Suffixed : StartsWith(ident.rest, Suffix(k))}
       IN  IF kinds = {} THEN Failed("UnknownDescriptor")
           ELSE Parsed(Descriptor(CHOOSE k \in kinds : TRUE, ident.value), Tail(ident.rest))

ParseDescriptor(s) ==
  LET kind == IF StartsWith(s, "[") THEN "TypeParameter"
              ELSE IF StartsWith(s, "(") THEN "Parameter" ELSE ""
      closing == IF kind = "Parameter" THEN ")" ELSE "]"
  IN  Then(ParseIdent(IF kind = "" THEN s ELSE Tail(s)),
           LAMBDA ident : IF kind = "" THEN ParseSuffixed(ident)
                          ELSE ClosedBy(closing, Descriptor(kind, ident.value), ident.rest))

RECURSIVE ParseDescriptors(_)
ParseDescriptors(s) ==
  IF s = <<>> THEN Parsed(<<>>, <<>>)
  ELSE Then(ParseDescriptor(s),
            LAMBDA first : Then(ParseDescriptors(first.rest),
              LAMBDA others : Parsed(<<first.value>> \o others.value, <<>>)))

Unfield(token) == IF token = <<".">> THEN <<>> ELSE token

(* Five tokens: what is before each of the first four spaces, and the rest. *)
HeaderTokens(s) ==
  LET spaces == {n \in DOMAIN s : s[n] = " "}
      ends == SelectSeq([n \in DOMAIN s |-> n], LAMBDA n : n \in spaces)
      Start(k) == IF k = 1 THEN 1 ELSE ends[k - 1] + 1
      End(k) == IF k = 5 THEN Len(s) ELSE ends[k] - 1
  IN  IF Len(ends) < 4 THEN <<<<>>>> ELSE [k \in 1 .. 5 |-> SubSeq(s, Start(k), End(k))]

GlobalOf(tokens) ==
  IF \E t \in Range(tokens) : t = <<>> THEN Failed("MalformedHeader")
  ELSE LET package == Package(Unfield(tokens[2]), Unfield(tokens[3]), Unfield(tokens[4]))
       IN  Then(ParseDescriptors(tokens[5]),
                LAMBDA path :
                  Parsed([Global(package, <<>>, path.value) EXCEPT !.scheme = tokens[1]], <<>>))

FromScip(s) ==
  IF s = <<>> THEN Failed("Empty")
  ELSE IF ~IsPrefix(<<"local", " ">>, s) THEN GlobalOf(HeaderTokens(s))
  ELSE IF Len(s) = 2 THEN Failed("ExpectedIdent")
  ELSE Parsed(Local(<<>>, From(s, 3)), <<>>)

(***************************************************************************)
(* The wire form.                                                          *)
(***************************************************************************)
ToWire(id) ==
  [version |-> 1, scip |-> ToScip(id),
   lang |-> IF id.variant = "Global" THEN <<id.lang>> ELSE <<>>,
   file |-> IF id.variant = "Local" THEN <<id.file>> ELSE <<>>]

Placed(id, wire) ==
  IF id.variant = "Global"
  THEN IF wire.lang = <<>> \/ wire.file # <<>> THEN Failed("GlobalContext")
       ELSE Parsed([id EXCEPT !.lang = wire.lang[1]], <<>>)
  ELSE IF wire.file = <<>> \/ wire.lang # <<>> THEN Failed("LocalContext")
       ELSE Parsed([id EXCEPT !.file = wire.file[1]], <<>>)

TryFromWire(wire) ==
  IF wire.version # 1 THEN Failed("Version")
  ELSE Then(FromScip(wire.scip), LAMBDA parsed : Placed(parsed.value, wire))

(* Readers still take the bare string, which has no coordinates. *)
Deserialize(input) == IF "version" \in DOMAIN input THEN TryFromWire(input)
                      ELSE FromScip(input.legacy)

(* A reference names its module by the written form: where that parses as  *)
(* a global identity, enriching the file stamps it like the others.        *)
RewriteSourceModule(text, package) ==
  CHOOSE result \in {IF parsed.error = "" /\ parsed.value.variant = "Global"
                     THEN ToScip(WithPackage(parsed.value, package)) ELSE text :
                       parsed \in {FromScip(text)}} : TRUE

(***************************************************************************)
(* The structural order: -1, 0 or 1.                                       *)
(***************************************************************************)
Sign(a, b) == IF a < b THEN -1 ELSE IF a > b THEN 1 ELSE 0

(* The first of the comparisons that decides. *)
Decided(signs) ==
  LET differ == {n \in DOMAIN signs : signs[n] # 0}
  IN  IF differ = {} THEN 0 ELSE signs[Min(differ)]

Lexicographic(a, b, Compare(_, _)) ==
  Decided([n \in 1 .. Min({Len(a), Len(b)}) |-> Compare(a[n], b[n])]
            \o <<Sign(Len(a), Len(b))>>)

CompareChars(c, d) == Sign(Order(c), Order(d))
CompareTexts(a, b) == Lexicographic(a, b, CompareChars)

CompareDescriptors(d, e) ==
  Decided(<<Sign(KindRank(d), KindRank(e)), CompareTexts(d.name, e.name),
            CompareTexts(d.disambiguator, e.disambiguator)>>)

ComparePackages(p, q) ==
  Decided(<<CompareTexts(p.manager, q.manager), CompareTexts(p.name, q.name),
            CompareTexts(p.version, q.version)>>)

CompareIds(x, y) ==
  IF x.variant # y.variant THEN IF x.variant = "Global" THEN -1 ELSE 1
  ELSE IF x.variant = "Local"
       THEN Decided(<<CompareTexts(x.file, y.file), CompareTexts(x.id, y.id)>>)
  ELSE Decided(<<CompareTexts(x.scheme, y.scheme), ComparePackages(x.package, y.package),
                 CompareTexts(x.lang, y.lang),
                 Lexicographic(x.descriptors, y.descriptors, CompareDescriptors)>>)
=============================================================================
