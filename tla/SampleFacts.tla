---------------------------- MODULE SampleFacts ----------------------------
(***************************************************************************)
(* Constructors for the small files that the bounded instances are made of.*)
(***************************************************************************)
EXTENDS Facts

Ns(name) == <<"Namespace", name>>
Package(space) == GlobalId("rust", <<Ns(space)>>)
Item(space, kind, name) == GlobalId("rust", <<Ns(space), <<kind, name>>>>)

Module(file, space, end) ==
  [id |-> Package(space), name |-> space, kind |-> "Module", file |-> file,
   span |-> <<0, end>>]
Definition(file, space, kind, tag, name, start) ==
  [id |-> Item(space, tag, name), name |-> name, kind |-> kind, file |-> file,
   span |-> <<start, start + 10>>]

InScope(ref) == [ref EXCEPT !.scope = 1]

Alias(name, leaf, space) ==
  [Ref(name, "Import", 1) EXCEPT !.from_path = <<"crate", space>>,
                                 !.imported_name = leaf, !.reexport = TRUE]

Binds(name, kind, intro) ==
  [name |-> name, scope |-> 1, intro |-> intro, kind |-> kind, from |-> <<>>,
   def |-> NoId, type |-> ""]

OneScope == <<[parent |-> 0]>>

FileOf(lang, file, symbols, references, scopes, bindings) ==
  [file |-> file, lang |-> lang, symbols |-> symbols, references |-> references,
   scopes |-> scopes, bindings |-> bindings, exports |-> <<>>]

(* Files of one Go package carry the package's own symbol, each a copy. *)
Shop(file, name) ==
  LET space == GlobalId("go", <<Ns("shop")>>)
      term == GlobalId("go", <<Ns("shop"), <<"Term", name>>>>)
  IN  FileOf("go", file,
        <<[id |-> space, name |-> "shop", kind |-> "Module", file |-> file, span |-> <<0, 90>>],
          [id |-> term, name |-> name, kind |-> "Function", file |-> file, span |-> <<10, 20>>]>>,
        <<>>, <<>>, <<>>)
=============================================================================
