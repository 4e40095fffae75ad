------------------------- MODULE MCIncrementalGraph -------------------------
(***************************************************************************)
(* Three Rust files, and two Go files of one package for the run about     *)
(* shared package symbols.  `app` asks for names in every way the resolver *)
(* distinguishes, `hub` re-exports, `util` defines.                        *)
(***************************************************************************)
EXTENDS IncrementalGraph, SampleFacts

Facts(file, symbols, references, scopes, bindings) ==
  FileOf("rust", file, symbols, references, scopes, bindings)

RunOf == Definition("app", "app", "Function", "Term", "run", 10)
Aid == Definition("app", "app", "Function", "Term", "aid", 30)

AppAsks ==
  Facts("app", <<Module("app", "app", 90), RunOf, Aid>>,
    <<[Ref("helper", "Call", 12) EXCEPT !.qualifier = <<"crate", "hub">>],
      [Ref("Config", "TypeRef", 13) EXCEPT !.annotated = TRUE],
      Ref("util", "ModuleRef", 2),
      InScope(Ref("helper", "Call", 14)),
      InScope(Ref("aid", "Call", 15)),
      InScope(Ref("x", "Read", 17)),
      InScope(Ref("aside", "Call", 18)),
      InScope([Ref("util", "TypeRef", 19) EXCEPT !.cross = TRUE])>>,
    OneScope,
    <<[Binds("helper", "Import", 0) EXCEPT !.from = <<"crate", "util">>],
      [Binds("aid", "Definition", 0) EXCEPT !.def = Aid.id],
      Binds("x", "Local", 16)>>)

HubForwards == Facts("hub", <<Module("hub", "hub", 90)>>,
                     <<Alias("helper", "", "util")>>, <<>>, <<>>)
HubRenames == Facts("hub", <<Module("hub", "hub", 90)>>,
                    <<Alias("helper", "other", "util")>>, <<>>, <<>>)
HubDefines ==
  Facts("hub", <<Module("hub", "hub", 90),
                 Definition("hub", "hub", "Function", "Term", "helper", 10)>>,
        <<>>, <<>>, <<>>)

Helper == Definition("util", "util", "Function", "Term", "helper", 10)
Other == Definition("util", "util", "Function", "Term", "other", 10)
Config == Definition("util", "util", "Struct", "Type", "Config", 30)

UtilBoth == Facts("util", <<Module("util", "util", 90), Helper, Config>>, <<>>, <<>>, <<>>)
UtilOther == Facts("util", <<Module("util", "util", 80), Other>>, <<>>, <<>>, <<>>)
UtilTwice == Facts("util", <<Module("util", "util", 90), Helper, Helper>>, <<>>, <<>>, <<>>)

Up(facts) == <<"upsert", facts>>
Rm(file) == <<"remove", file>>

Singles(set) == {<<c>> : c \in set}

MCFileOrder == <<"app", "hub", "shop1", "shop2", "util">>

MCBatches ==
  Singles({Up(AppAsks), Up(HubForwards), Up(HubDefines),
           Up(UtilBoth), Up(UtilOther), Up(UtilTwice), Rm("app"), Rm("hub"), Rm("util")})
    \cup {<<Up(HubRenames), Up(UtilOther)>>, <<Up(UtilBoth), Rm("util")>>}

SharedBatches ==
  Singles({Up(Shop("shop1", "buy")), Up(Shop("shop2", "sell")), Rm("shop1"), Rm("shop2")})

MCDamaged ==
  {<<>>, [f \in {"app"} |-> [BuildSubgraph(AppAsks) EXCEPT !.schema = 0]]}

NoDamage == {<<>>}
=============================================================================
