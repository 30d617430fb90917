------------------------------- MODULE Memory -------------------------------
(***************************************************************************)
(* The T3 tier: core/src/memory/store.ts under cli/src/workspace-service.ts*)
(* (indexWorkspace) and its callers.  Clients index the workspace and      *)
(* search it at the same time, over one database; files change meanwhile,  *)
(* and the daemon may die.  A step is the code between two awaits, and the *)
(* awaits are the calls of the embedding server.                           *)
(* First core/src/memory/chunker.ts: a file cut into the chunks that are   *)
(* stored and searched.  A file is a sequence of lines; of a line only     *)
(* what the cuts depend on is kept: the name it declares, the braces       *)
(* outside its strings and comments, and whether it is blank.              *)
(***************************************************************************)
EXTENDS Naturals, Sequences, FiniteSets, SequencesExt, Bags

CONSTANTS
  Contents,      \* what a file may hold: sequences of lines
  CodeSources,   \* the paths that isCodeLike recognises
  NoSymbol,      \* null
  MaxLines,      \* lines of a chunk that no brace closes
  OverlapLines,  \* lines that two windows share
  Sources,     \* paths of the files that are listed
  NoFile,      \* what is read of a path that is gone
  Passes,      \* calls of indexWorkspace
  Queries,     \* calls of search
  Limit,       \* how many hits a search may return
  MaxEdits,    \* bound: changes to files
  MaxCrashes   \* bound: deaths of the daemon

ASSUME ChunkerAssumption == MaxLines \in Nat /\ OverlapLines \in Nat /\ OverlapLines < MaxLines

Names == STRING \cup {NoSymbol}
Lines == [declares : Names, braces : Seq({"{", "}"}), blank : BOOLEAN]

ASSUME MemoryAssumption ==
  /\ \A content \in Contents : content \in Seq(Lines)
  /\ NoFile \notin Contents
  /\ Limit \in Nat

Span(from, to, symbol) == [from |-> from, to |-> to, symbol |-> symbol]
TextOf(content, span) == SubSeq(content, span.from, span.to)
IsBlank(content, span) == \A i \in span.from..span.to : content[i].blank

\* The scan stands at line i: what is cut so far, where the open chunk starts,
\* how many braces are open, and the declared name that waits for its brace.
Cut(scan, i) ==
  [scan EXCEPT !.spans = Append(@, Span(scan.start, i, scan.current)),
               !.start = i + 1, !.current = NoSymbol]

OpenBrace(scan) ==
  IF scan.depth = 0 /\ scan.pending # NoSymbol
    THEN [scan EXCEPT !.depth = 1, !.current = scan.pending, !.pending = NoSymbol]
    ELSE [scan EXCEPT !.depth = @ + 1]

\* A line may close what was never opened; the depth stays at zero.
CloseBrace(scan, i) ==
  IF scan.depth <= 1 THEN Cut([scan EXCEPT !.depth = 0], i) ELSE [scan EXCEPT !.depth = @ - 1]

Declared(scan, line) ==
  IF line.declares # NoSymbol /\ scan.depth = 0 THEN [scan EXCEPT !.pending = line.declares] ELSE scan

ScanLine(scan, line, i) ==
  LET braced == FoldLeft(LAMBDA s, brace : IF brace = "{" THEN OpenBrace(s) ELSE CloseBrace(s, i),
                         Declared(scan, line), line.braces)
  IN IF braced.depth = 0 /\ i >= braced.start + MaxLines THEN Cut(braced, i) ELSE braced

NewScan == [spans |-> <<>>, start |-> 1, depth |-> 0, current |-> NoSymbol, pending |-> NoSymbol]

CodeSpans(content) ==
  LET end == FoldLeft(LAMBDA scan, i : ScanLine(scan, content[i], i), NewScan,
                      [i \in 1..Len(content) |-> i])
  IN ToSet(end.spans) \cup
       (IF end.start <= Len(content) THEN {Span(end.start, Len(content), end.current)} ELSE {})

\* Windows that overlap, up to the first that reaches the end.
WindowSpans(content) ==
  LET EndOf(k) == 1 + k * (MaxLines - OverlapLines) + MaxLines - 1
      windows == {k \in 0..Len(content) : k = 0 \/ EndOf(k - 1) < Len(content)}
  IN {Span(1 + k * (MaxLines - OverlapLines),
           IF EndOf(k) < Len(content) THEN EndOf(k) ELSE Len(content), NoSymbol) : k \in windows}

ChunkFile(source, content) ==
  {span \in (IF source \in CodeSources THEN CodeSpans(content) ELSE WindowSpans(content)) :
     ~IsBlank(content, span)}

-----------------------------------------------------------------------------
\* What cutting a file promises: no line with something on it is lost, and a
\* line of code is in one chunk only.
CoversEveryLine(source, content) ==
  \A i \in DOMAIN content :
    content[i].blank \/ \E span \in ChunkFile(source, content) : i \in span.from..span.to
CutsCodeOnce(source, content) ==
  source \in CodeSources =>
    \A a, b \in ChunkFile(source, content) : a = b \/ a.to < b.from \/ b.to < a.from

-----------------------------------------------------------------------------
VARIABLES
  files,    \* [Sources -> the text on disk]
  chunks,   \* mem_chunks
  words,    \* mem_fts: a bag of rows
  marks,    \* index_files: the text whose hash is kept, or NoFile
  passes,   \* [Passes -> where the call of indexWorkspace is]
  queries,  \* [Queries -> where the call of search is]
  torn,     \* history: sources whose indexing a crash cut off
  mixed,    \* history: sources two calls were storing at a time
  spent     \* edits and crashes so far

indexVars == <<files, chunks, words, marks, passes, queries, torn, mixed, spent>>

Resting == [step |-> "idle", todo |-> {}, at |-> NoFile, text |-> NoFile]
NotAsked == [step |-> "idle", symbol |-> NoSymbol, ids |-> {}, cut |-> FALSE, there |-> {}, hits |-> {}]

IndexInit ==
  /\ files \in [Sources -> Contents]
  /\ chunks = {} /\ words = EmptyBag
  /\ marks = [s \in Sources |-> NoFile]
  /\ passes = [p \in Passes |-> Resting]
  /\ queries = [q \in Queries |-> NotAsked]
  /\ torn = {} /\ mixed = {}
  /\ spent = [edits |-> 0, crashes |-> 0]

\* Rows are known by source and lines, as in `${source}:${start}-${end}`.
Id(row) == <<row.source, row.from, row.to>>
RowsOf(source, content) ==
  {[source |-> source, from |-> span.from, to |-> span.to, symbol |-> span.symbol,
    text |-> TextOf(content, span)] : span \in ChunkFile(source, content)}
\* What a file is cut into, once for all steps.
Cuts == [s \in Sources |-> [c \in Contents |-> RowsOf(s, c)]]
RowsAt(s) == {row \in chunks : row.source = s}

At(s) == {p \in Passes : passes[p].step = "embed" /\ passes[p].at = s}

-----------------------------------------------------------------------------
Edit(s) ==
  /\ spent.edits < MaxEdits
  /\ \E text \in (Contents \cup {NoFile}) \ {files[s]} : files' = [files EXCEPT ![s] = text]
  /\ spent' = [spent EXCEPT !.edits = @ + 1]
  /\ UNCHANGED <<chunks, words, marks, passes, queries, torn, mixed>>

Start(p) ==
  /\ passes[p].step = "idle"
  /\ passes' = [passes EXCEPT ![p] =
       [Resting EXCEPT !.step = "run", !.todo = {s \in Sources : files[s] # NoFile}]]
  /\ UNCHANGED <<files, chunks, words, marks, queries, torn, mixed, spent>>

Upcoming(p) == CHOOSE s \in passes[p].todo : TRUE
Passed(p) == [passes EXCEPT ![p] = [Resting EXCEPT !.step = "run", !.todo = passes[p].todo \ {Upcoming(p)}]]

\* Mutant of IsIndexed: a file that was indexed once is not looked at again.
WasIndexed(s) == marks[s] # NoFile

IsIndexed(s) == marks[s] = files[s]

\* The file cannot be read, or its hash is the one kept.
Skip(p) ==
  /\ passes[p].step = "run" /\ passes[p].todo # {}
  /\ files[Upcoming(p)] = NoFile \/ IsIndexed(Upcoming(p))
  /\ passes' = Passed(p)
  /\ UNCHANGED <<files, chunks, words, marks, queries, torn, mixed, spent>>

\* Text rows go by the ids that the chunks of the source have.
WordsWithout(rows, s) ==
  LET kept == {w \in BagToSet(words) : ~\E row \in rows : row.source = s /\ Id(row) = Id(w)}
  IN [w \in kept |-> words[w]]

\* The chunks of the source go, then the text rows: when their turn comes, no
\* chunk is left to find them by.  Then the chunks are sent to be embedded.
Clear(p) ==
  /\ passes[p].step = "run" /\ passes[p].todo # {}
  /\ LET s == Upcoming(p)
     IN /\ files[s] # NoFile /\ ~IsIndexed(s)
        /\ chunks' = chunks \ RowsAt(s)
        /\ words' = WordsWithout(chunks', s)
        /\ passes' = [passes EXCEPT ![p].step = "embed", ![p].at = s, ![p].text = files[s]]
        /\ torn' = torn \ {s}
        /\ mixed' = IF At(s) = {} THEN mixed \ {s} ELSE mixed
  /\ UNCHANGED <<files, marks, queries, spent>>

Replacing(rows) == {row \in chunks : \A new \in rows : Id(row) # Id(new)} \cup rows

\* Mutant of Store: the hash is taken of the file as it is by now.
StoreMarkingNow(p) ==
  LET s == passes[p].at  rows == Cuts[s][passes[p].text]
  IN /\ passes[p].step = "embed"
     /\ chunks' = Replacing(rows) /\ words' = words (+) SetToBag(rows)
     /\ marks' = [marks EXCEPT ![s] = files[s]]
     /\ passes' = [passes EXCEPT ![p] = [Resting EXCEPT !.step = "run", !.todo = passes[p].todo \ {s}]]
     /\ mixed' = IF At(s) = {p} THEN mixed ELSE mixed \cup {s}
     /\ UNCHANGED <<files, queries, torn, spent>>

\* Mutant of Store: the text rows of the source go once the new ones are in.
StoreDroppingWords(p) ==
  LET s == passes[p].at  rows == Cuts[s][passes[p].text]
  IN /\ passes[p].step = "embed"
     /\ chunks' = Replacing(rows) /\ words' = WordsWithout(chunks', s)
     /\ marks' = [marks EXCEPT ![s] = passes[p].text]
     /\ passes' = [passes EXCEPT ![p] = [Resting EXCEPT !.step = "run", !.todo = passes[p].todo \ {s}]]
     /\ mixed' = IF At(s) = {p} THEN mixed ELSE mixed \cup {s}
     /\ UNCHANGED <<files, queries, torn, spent>>

\* The embedding server answered, or did not: the rows are written either way,
\* and the hash of the text that was read is kept.
Store(p) ==
  LET s == passes[p].at  rows == Cuts[s][passes[p].text]
  IN /\ passes[p].step = "embed"
     /\ chunks' = Replacing(rows) /\ words' = words (+) SetToBag(rows)
     /\ marks' = [marks EXCEPT ![s] = passes[p].text]
     /\ passes' = [passes EXCEPT ![p] = [Resting EXCEPT !.step = "run", !.todo = passes[p].todo \ {s}]]
     /\ mixed' = IF At(s) = {p} THEN mixed ELSE mixed \cup {s}
     /\ UNCHANGED <<files, queries, torn, spent>>

End(p) ==
  /\ passes[p].step = "run" /\ passes[p].todo = {}
  /\ passes' = [passes EXCEPT ![p] = Resting]
  /\ UNCHANGED <<files, chunks, words, marks, queries, torn, mixed, spent>>

\* Rows go in by their lines, each with two statements that commit by
\* themselves, the chunk and then its text: what a call wrote before it was cut
\* off at `row`, whose text is in or is not.
PartStored(rows, row, both) ==
  LET before == {r \in rows : r.from < row.from}
  IN /\ chunks' = Replacing(before \cup {row})
     /\ words' = words (+) SetToBag(before \cup {r \in {row} : both})

\* A call that was storing leaves a part, which may be all but the hash.
Crash ==
  /\ spent.crashes < MaxCrashes
  /\ \/ UNCHANGED <<chunks, words>>
     \/ \E p \in Passes : /\ passes[p].step = "embed"
                          /\ \E row \in Cuts[passes[p].at][passes[p].text], both \in BOOLEAN :
                               PartStored(Cuts[passes[p].at][passes[p].text], row, both)
  /\ torn' = torn \cup {s \in Sources : At(s) # {}}
  /\ mixed' = mixed \cup {s \in Sources : At(s) # {}}
  /\ passes' = [p \in Passes |-> Resting]
  /\ queries' = [q \in Queries |-> NotAsked]
  /\ spent' = [spent EXCEPT !.crashes = @ + 1]
  /\ UNCHANGED <<files, marks>>

-----------------------------------------------------------------------------
Symbols == UNION {{line.declares : line \in ToSet(c)} : c \in Contents} \ {NoSymbol}
Speaks(row, symbol) == \E line \in ToSet(row.text) : line.declares = symbol
Firsts(S, n) == IF Cardinality(S) <= n THEN {S} ELSE {T \in SUBSET S : Cardinality(T) = n}

\* What a search should find: the chunks that speak of the name.  One of a
\* source whose indexing a crash cut off may be without its text row.
Findable(symbol) == {row \in chunks : Speaks(row, symbol) /\ row.source \notin torn}

\* Text search is answered at once: the first rows of the text table.
Ask(q) ==
  /\ queries[q].step = "idle"
  /\ \E symbol \in Symbols :
       LET found == {w \in BagToSet(words) : Speaks(w, symbol)}
           cut == BagCardinality([w \in found |-> words[w]]) > 4 * Limit
       IN \E rows \in (IF cut THEN {T \in SUBSET found : Cardinality(T) <= 4 * Limit} ELSE {found}) :
            queries' = [queries EXCEPT ![q] =
              [NotAsked EXCEPT !.step = "ask", !.symbol = symbol, !.cut = cut,
                 !.ids = {Id(w) : w \in rows}, !.there = Findable(symbol)]]
  /\ UNCHANGED <<files, chunks, words, marks, passes, torn, mixed, spent>>

\* Fusing by rank: what both lists name comes before what one names, as long
\* as a list is shorter than the damping constant.
Fused(texts, vectors) ==
  {F \in Firsts(texts \cup vectors, 2 * Limit) :
     (texts \cap vectors) \ F = {} \/ F \subseteq texts \cap vectors}

\* The vector list, when the server answers, is taken of the chunks by then;
\* ids of rows that are gone take a place and give no hit.
Rank(q) ==
  /\ queries[q].step = "ask"
  /\ \E vectors \in {{}} \cup Firsts({Id(row) : row \in chunks}, 4 * Limit) :
       \E fused \in Fused(queries[q].ids, vectors) :
         \E hits \in Firsts({row \in chunks : Id(row) \in fused}, Limit) :
           queries' = [queries EXCEPT ![q] = [NotAsked EXCEPT !.step = "done", !.hits = hits,
             !.cut = queries[q].cut \/ Cardinality(queries[q].ids \cup vectors) > 2 * Limit]]
  /\ UNCHANGED <<files, chunks, words, marks, passes, torn, mixed, spent>>

-----------------------------------------------------------------------------
Work(p) == Start(p) \/ Skip(p) \/ Clear(p) \/ Store(p) \/ End(p)
IndexNext ==
  \/ \E s \in Sources : Edit(s)
  \/ \E p \in Passes : Work(p)
  \/ Crash
  \/ \E q \in Queries : Ask(q) \/ Rank(q)

IndexSpec == IndexInit /\ [][IndexNext]_indexVars
\* A call of indexWorkspace runs to its end, and clients go on asking for one.
FairIndexSpec == IndexSpec /\ \A p \in Passes : WF_indexVars(Work(p))

-----------------------------------------------------------------------------
(* Properties. *)

\* A source that nobody is storing has the chunks of the text whose hash is
\* kept, those and no others, unless a crash cut its indexing off or two calls
\* stored it at a time (store.ts, indexFile).
RowsAreOfTheMarkedText ==
  \A s \in Sources \ mixed :
    At(s) = {} => RowsAt(s) = IF marks[s] = NoFile THEN {} ELSE Cuts[s][marks[s]]

\* Two calls at a time may leave chunks that are too many, never too few: what
\* the hash says is indexed is there line by line (store.ts, indexFile with
\* chunkFile).
MarkedLinesAreStored ==
  \A s \in Sources \ torn :
    At(s) = {} /\ marks[s] # NoFile =>
      \A i \in DOMAIN marks[s] :
        \/ marks[s][i].blank
        \/ \E row \in RowsAt(s) : row.from <= i /\ i <= row.to /\ row.text[i - row.from + 1] = marks[s][i]

\* Once files stop changing and clients go on indexing, the kept hashes become
\* those of the files, whatever overlapped or crashed before (indexWorkspace).
IndexCatchesUp == <>[](\A s \in Sources : files[s] = NoFile \/ marks[s] = files[s])

\* A chunk that held the searched name when the search began, and still does
\* when it ends, is returned unless there was no room for it, also while its
\* file is being replaced, and after other files' indexing was cut off by a
\* crash: it is the text row that leads to it (store.ts, search and indexFile).
\* Where the crash hit the file itself the last chunk written may have none.
SearchMissesNothing ==
  [][\A q \in Queries :
       queries[q].step = "ask" /\ queries'[q].step = "done" /\ ~queries'[q].cut =>
         \/ Cardinality(queries'[q].hits) = Limit
         \/ queries[q].there \cap chunks \subseteq queries'[q].hits]_indexVars
=============================================================================
