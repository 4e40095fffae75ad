--------------------------- MODULE MCSourceIndex ---------------------------
(***************************************************************************)
(* One or two processes over one or two files.                             *)
(***************************************************************************)
EXTENDS SourceIndex, TLC

CONSTANTS a, b, p, q

\* Contents by what becomes of them.
MCNatureOf ==
  ("one" :> "extracts") @@ ("two" :> "extracts") @@ ("broken" :> "fails")
    @@ ("bytes" :> "binary") @@ ("odd" :> "invalid") @@ ("huge" :> "oversized")
NaturesOf(contents) == [c \in contents |-> MCNatureOf[c]]
OddContents == {"one", "odd"}
Odd == NaturesOf(OddContents)
PlainContents == {"one", "bytes"}
Plain == NaturesOf(PlainContents)

Command(kind, flags) ==
  [kind |-> kind, force |-> "force" \in flags, trust |-> "trust" \in flags,
   partial |-> "partial" \in flags, stale |-> "stale" \in flags]

Index == Command("index", {})
Query == Command("query", {})
RacingCommands == {Index, Command("index", {"force", "partial"})}
AllCommands == {Command("index", {"partial"}), Command("index", {"trust", "partial"}),
                Query, Command("query", {"stale"})}
=============================================================================
