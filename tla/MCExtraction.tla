---------------------------- MODULE MCExtraction ----------------------------
EXTENDS Extraction

Samples == INSTANCE SampleSources

MCSources ==
  Samples!RustSources
    \cup Samples!TypeScriptSources
    \cup Samples!ScriptSources
    \cup Samples!PythonSources
    \cup Samples!JavaSources
    \cup Samples!GoSources
    \cup Samples!KotlinSources
    \cup Samples!SwiftSources
    \cup Samples!SoliditySources
    \cup Samples!DartSources
    \cup Samples!CppSources
    \cup Samples!CSources
    \cup Samples!ScalaSources
    \cup Samples!PhpSources
    \cup Samples!CSharpSources
    \cup Samples!PascalSources
    \cup Samples!LuaSources
    \cup Samples!RubySources
    \cup Samples!SqlSources
    \cup Samples!HclSources
    \cup Samples!ShellSources
    \cup Samples!SvelteSources

MCRules == {[lang |-> "rust", construct |-> <<"sqlx", "query">>, sql_arg |-> 0],
            [lang |-> "python", construct |-> <<"execute">>, sql_arg |-> 0]}
=============================================================================
