------------------------------- MODULE Impact -------------------------------
(***************************************************************************)
(* Bounded reverse reachability (query/src/impact.rs) over paged reads     *)
(* (query/src/read.rs), the impact commands that share one bound among     *)
(* several seeds (cli/src/commands/impact.rs), and the seeds a diff gives  *)
(* (cli/src/commands/diff_impact.rs).                                      *)
(*                                                                         *)
(* A graph is the sequence of its edges in the order of their keys, so an  *)
(* edge's position stands for its key.  Identities are numbers in their    *)
(* structural order, confidences the numbers 1 .. 4.                       *)
(***************************************************************************)
EXTENDS Integers, Sequences, FiniteSets, SequencesExt

Exact == 4

Lesser(m, n) == IF m < n THEN m ELSE n

(***************************************************************************)
(* Reads.  The role of a filter stands for its provenance too: both are    *)
(* optional and must be equal.                                             *)
(***************************************************************************)
Matches(filter, edge) ==
  /\ edge.confidence >= filter.min_confidence
  /\ filter.role \in {"", edge.role}

Adjacent(graph, id, filter) ==
  SelectSeq([key \in DOMAIN graph |-> [key |-> key, edge |-> graph[key]]],
            LAMBDA row : row.edge.to = id /\ Matches(filter, row.edge))

(* page_by: at most `limit` rows after the cursor; 0 is no cursor. *)
PageBy(rows, after, limit) ==
  LET rest == SelectSeq(rows, LAMBDA row : row.key > after)
  IN  [items |-> SubSeq(rest, 1, Lesser(limit, Len(rest))),
       next |-> IF Len(rest) > limit THEN rest[limit].key ELSE 0]

(* The loop every reader of pages runs; `page` is the size it asks for. *)
ReadAll(rows, page) ==
  LET from[after \in Nat] ==
        LET answer == PageBy(rows, after, page)
        IN  answer.items \o (IF answer.next = 0 THEN <<>> ELSE from[answer.next])
  IN  from[0]

(***************************************************************************)
(* impact.                                                                 *)
(***************************************************************************)
IsBetterByKey(c, other) ==
  \/ c.via < other.via
  \/ c.via = other.via /\ c.confidence > other.confidence

IsBetterThan(c, other) ==
  \/ c.confidence > other.confidence
  \/ c.confidence = other.confidence /\ c.via < other.via
  \/ c.confidence = other.confidence /\ c.via = other.via /\ c.parent < other.parent

Candidates(graph, search, options) ==
  UNION {{[symbol |-> row.edge.from, parent |-> at.symbol, via |-> row.key,
           confidence |-> Lesser(at.confidence, row.edge.confidence)] :
            row \in {r \in Range(ReadAll(Adjacent(graph, at.symbol, options.filter),
                                         options.page)) :
                       r.edge.from \notin search.visited}} :
           at \in search.frontier}

(* One candidate per symbol, in structural order. *)
Selected(candidates) ==
  LET best == {c \in candidates : \A other \in candidates :
                 other.symbol = c.symbol /\ other # c => IsBetterThan(c, other)}
      symbols == {c.symbol : c \in best}
      Nth(n) == CHOOSE c \in best :
                  n = Cardinality({s \in symbols : s <= c.symbol})
  IN  [n \in 1 .. Cardinality(symbols) |-> Nth(n)]

Finished(search, truncated) == [search EXCEPT !.open = FALSE, !.truncated = truncated]

Deeper(search, taken) ==
  [search EXCEPT
     !.steps = @ \o [n \in DOMAIN taken |->
                       [symbol |-> taken[n].symbol, parent |-> taken[n].parent,
                        via |-> taken[n].via, depth |-> search.depth + 1,
                        confidence |-> taken[n].confidence]],
     !.visited = @ \cup {c.symbol : c \in Range(taken)},
     !.frontier = {[symbol |-> c.symbol, confidence |-> c.confidence] :
                     c \in Range(taken)},
     !.depth = @ + 1]

Expand(graph, search, options) ==
  LET candidates == Selected(Candidates(graph, search, options))
      left == options.max_nodes - Len(search.steps)
      remaining == IF left > 0 THEN left ELSE 0
      taken == SubSeq(candidates, 1, Lesser(remaining, Len(candidates)))
  IN  IF candidates = <<>> THEN Finished(search, FALSE)
      ELSE IF search.depth >= options.max_depth THEN Finished(search, TRUE)
      ELSE IF Len(candidates) > remaining THEN Finished(Deeper(search, taken), TRUE)
      ELSE Deeper(search, taken)

ImpactOf(graph, seed, options) ==
  LET rounds == Len(graph) + 1
      level[n \in 0 .. rounds] ==
        IF n = 0
        THEN [steps |-> <<>>, visited |-> {seed}, depth |-> 0, open |-> TRUE,
              frontier |-> {[symbol |-> seed, confidence |-> Exact]},
              truncated |-> FALSE]
        ELSE LET search == level[n - 1]
             IN  IF search.open THEN Expand(graph, search, options) ELSE search
  IN  [steps |-> level[rounds].steps, truncated |-> level[rounds].truncated]

(***************************************************************************)
(* The commands: one traversal per seed, one bound for all their rows.     *)
(***************************************************************************)
Allowance(rows, max_nodes) ==
  IF Len(rows) < max_nodes THEN max_nodes - Len(rows) ELSE 0

AppendSeedImpact(graph, answer, seed, options) ==
  LET one == ImpactOf(graph, seed, [options EXCEPT
               !.max_nodes = Allowance(answer.rows, options.max_nodes)])
  IN  [rows |-> answer.rows \o [n \in DOMAIN one.steps |->
                                  [seed |-> seed, step |-> one.steps[n]]],
       truncated |-> answer.truncated \/ one.truncated]

ExecuteImpact(graph, seeds, options) ==
  FoldLeft(LAMBDA answer, seed : AppendSeedImpact(graph, answer, seed, options),
           [rows |-> <<>>, truncated |-> FALSE], seeds)

(***************************************************************************)
(* diff_impact: the symbols a diff of the working tree touches.  A file is *)
(* the sequence of its line lengths, line ends included; a hunk is the new *)
(* side of its header, <<first line, number of lines>>.                    *)
(***************************************************************************)
LineStarts(lines) ==
  LET start[n \in Nat] == IF n = 1 THEN 0 ELSE start[n - 1] + lines[n - 1]
  IN  [n \in DOMAIN lines |-> start[n]]

HunkAsWritten(hunk) == <<hunk[1], hunk[1] + hunk[2]>>

(* A deletion has no new line: the line at its place stands for it. *)
ParseHunkHeader(hunk) ==
  IF hunk[2] > 0 THEN HunkAsWritten(hunk)
  ELSE HunkAsWritten(<<IF hunk[1] > 1 THEN hunk[1] ELSE 1, 1>>)

(* Half-open; <<>> when the range starts past the last line. *)
LineRangeToByteRange(starts, total, range) ==
  IF range[1] \notin DOMAIN starts THEN <<>>
  ELSE <<starts[range[1]],
         IF range[2] \in DOMAIN starts THEN starts[range[2]] ELSE total>>

ByteRangesOverlap(span, range) == span[1] < range[2] /\ range[1] < span[2]

DiffSeeds(lines, hunks, spans) ==
  LET starts == LineStarts(lines)
      total == FoldLeft(LAMBDA sum, n : sum + n, 0, lines)
      changed == {LineRangeToByteRange(starts, total, ParseHunkHeader(h)) : h \in hunks} \ {<<>>}
  IN  {span \in spans : \E range \in changed : ByteRangesOverlap(span, range)}
=============================================================================
