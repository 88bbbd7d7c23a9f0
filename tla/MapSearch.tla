------------------------------ MODULE MapSearch ------------------------------
(***************************************************************************)
(* The search string of the map: its tokens and its grammar                *)
(* (mapsearch/parse), and the condition it becomes on each kind of table   *)
(* (sqlclause/mapsearch_sql, map_scope, filter).                           *)
(* A text is a sequence of words; a condition is the set of rows it keeps, *)
(* or no condition at all.                                                 *)
(***************************************************************************)
EXTENDS Naturals, Sequences, FiniteSets, SequencesExt

CONSTANTS
    Rows,           \* the rows searched: functions from columns to texts
    fieldAliases,   \* a function from the words that name a field to fields
    countryNeedles, \* a function from some words to the names of that country
    MaxQueryWords   \* 400 characters: the longest query, in lexemes

\* A lexeme of the raw string is a word (the punctuation included) or a quoted
\* text; an open quote is the word "unclosed".
Word(w) == [quoted |-> FALSE, text |-> <<w>>]
Quoted(t) == [quoted |-> TRUE, text |-> t]

Marks == {"(", ")", ":", "=", "!="}
Connectives == {"AND", "OR", "NOT"}

\* The type of the token a lexeme becomes.
Typ(lex) == IF lex.quoted THEN "string"
            ELSE IF lex.text[1] \in Marks \cup Connectives \cup {"unclosed"} THEN lex.text[1]
            ELSE "word"

SanitizeMapQuery(raw) == IF Len(raw) <= MaxQueryWords THEN raw ELSE SubSeq(raw, 1, MaxQueryWords)

\* A colon makes a query advanced only after a word.
hasFieldColon(raw) ==
    \E i \in 2 .. Len(raw) : Typ(raw[i]) = ":" /\ Typ(raw[i - 1]) \in {"word"} \cup Connectives

looksAdvanced(raw) ==
    \/ \E i \in 1 .. Len(raw) : \/ Typ(raw[i]) \in {"(", ")", "=", "!=", "string", "unclosed"}
                                \/ Typ(raw[i]) \in Connectives
                                \/ raw[i] = Word("contains")
    \/ hasFieldColon(raw)

tokenize(raw) ==
    [ok |-> \A i \in 1 .. Len(raw) : Typ(raw[i]) # "unclosed", tokens |-> raw]

-----------------------------------------------------------------------------
(* The grammar.  A parse is a tree and the tokens after it. *)

Term(field, op, value) == [kind |-> "term", field |-> field, op |-> op, value |-> value]
Not(n) == [kind |-> "not", expr |-> n]
And(l, r) == [kind |-> "and", left |-> l, right |-> r]
Or(l, r) == [kind |-> "or", left |-> l, right |-> r]

Parsed(n, rest) == [ok |-> TRUE, node |-> n, rest |-> rest]
Failed == [ok |-> FALSE]

peek(ts) == IF ts = <<>> THEN "end" ELSE Typ(Head(ts))
next(ts) == Tail(ts)

startsPrimary(ts) == peek(ts) \in {"word", "string", "(", "NOT"}

parseValue(ts, field, op) ==
    IF peek(ts) \in {"word", "string"} THEN Parsed(Term(field, op, Head(ts).text), next(ts)) ELSE Failed

IsContains(ts) == peek(ts) = "word" /\ Head(ts) = Word("contains")

parseFieldTerm(ts, field) ==
    CASE peek(ts) = ":" -> parseValue(next(ts), field, "contains")
      [] peek(ts) = "=" -> parseValue(next(ts), field, "eq")
      [] peek(ts) = "!=" -> parseValue(next(ts), field, "ne")
      [] IsContains(ts) -> parseValue(next(ts), field, "contains")
      [] OTHER -> Failed

\* What becomes of the parts of a condition once they are parsed.
Closed(p) == IF p.ok /\ peek(p.rest) = ")" THEN Parsed(p.node, next(p.rest)) ELSE Failed
Negated(p) == IF p.ok THEN Parsed(Not(p.node), p.rest) ELSE Failed
Both(l, r) == IF r.ok THEN Parsed(And(l.node, r.node), r.rest) ELSE Failed
Either(l, r) == IF r.ok THEN Parsed(Or(l.node, r.node), r.rest) ELSE Failed
Whole(p) == IF p.ok /\ p.rest = <<>> THEN p ELSE Failed

RECURSIVE parseOr(_)
RECURSIVE parseUnary(_)
RECURSIVE parseAndRest(_)
RECURSIVE parseOrRest(_)

\* A word that names no field is an error, one that names a field and has no
\* operator is text.
parseWord(ts) ==
    LET head == Head(ts).text  rest == next(ts)
    IN  IF head[1] \notin DOMAIN fieldAliases THEN Failed
        ELSE IF /\ fieldAliases[head[1]] # "all"
                /\ peek(rest) \in {":", "=", "!="} \/ IsContains(rest)
             THEN parseFieldTerm(rest, fieldAliases[head[1]])
             ELSE Parsed(Term("all", "contains", head), rest)

parsePrimary(ts) ==
    CASE peek(ts) = "(" -> Closed(parseOr(next(ts)))
      [] peek(ts) = "word" -> parseWord(ts)
      [] peek(ts) = "string" -> Parsed(Term("all", "contains", Head(ts).text), next(ts))
      [] OTHER -> Failed

parseUnary(ts) == IF peek(ts) = "NOT" THEN Negated(parseUnary(next(ts))) ELSE parsePrimary(ts)

\* AND may be left out between two conditions.
parseAndRest(left) ==
    IF ~left.ok THEN left
    ELSE IF peek(left.rest) # "AND" /\ ~startsPrimary(left.rest) THEN left
    ELSE parseAndRest(Both(left, parseUnary(IF peek(left.rest) = "AND" THEN next(left.rest) ELSE left.rest)))

parseAnd(ts) == parseAndRest(parseUnary(ts))

parseOrRest(left) ==
    IF ~left.ok THEN left
    ELSE IF peek(left.rest) # "OR" THEN left
    ELSE parseOrRest(Either(left, parseAnd(next(left.rest))))

parseOr(ts) == parseOrRest(parseAnd(ts))

\* The whole string must be one condition.
parseQuery(raw) ==
    LET t == tokenize(raw)
    IN  IF ~t.ok \/ t.tokens = <<>> THEN Failed ELSE Whole(parseOr(t.tokens))

\* A query that cannot be parsed filters nothing.
Rooted(p) == IF p.ok THEN [mode |-> "tree", root |-> p.node] ELSE [mode |-> "empty"]

Compile(raw) ==
    IF raw = <<>> THEN [mode |-> "empty"]
    ELSE IF ~looksAdvanced(raw) THEN [mode |-> "simple", text |-> FlattenSeq([i \in 1 .. Len(raw) |-> raw[i].text])]
    ELSE Rooted(parseQuery(raw))

-----------------------------------------------------------------------------
(* Columns by field, for the logs, the geo tables and the address tables *)

Common == [port |-> {"src_port", "dst_port"}, src_port |-> {"src_port"}, dst_port |-> {"dst_port"},
           src_country |-> {"src_country"}, dst_country |-> {"dst_country"},
           device |-> {"device"}, proto |-> {"proto"}]

ByAddress ==
    [ip |-> {"src_ip", "dst_ip"}, src_ip |-> {"src_ip"}, dst_ip |-> {"dst_ip"},
     country |-> {"src_country", "dst_country"},
     city |-> {"src_city", "dst_city"}, src_city |-> {"src_city"}, dst_city |-> {"dst_city"},
     src |-> {"src_ip", "src_country"}, dst |-> {"dst_ip", "dst_country"}] @@ Common

LogsMapSearchColumns ==
    [action |-> {"action"}, zone |-> {"src_zone", "dst_zone"}] @@ ByAddress

GeoMapSearchColumns ==
    [ip |-> {"src_key", "dst_key", "src_label", "dst_label"},
     src_ip |-> {"src_key", "src_label"}, dst_ip |-> {"dst_key", "dst_label"},
     country |-> {"src_country", "dst_country", "src_key", "dst_key"},
     city |-> {"src_city", "dst_city", "src_label", "dst_label"},
     src_city |-> {"src_city", "src_label"}, dst_city |-> {"dst_city", "dst_label"},
     src |-> {"src_key", "src_label", "src_country"},
     dst |-> {"dst_key", "dst_label", "dst_country"},
     action |-> {"last_action"}, zone |-> {"src_key", "dst_key"}] @@ Common

IPAggMapSearchColumns ==
    [action |-> {"last_action"}, zone |-> {"src_ip", "dst_ip"}] @@ ByAddress

\* concat_ws in the order of the columns; an empty column leaves two spaces.
AllConcat(cols) ==
    CASE cols = LogsMapSearchColumns ->
           <<"src_ip", "dst_ip", "src_port", "dst_port", "src_country", "dst_country", "src_city",
             "dst_city", "action", "device", "proto", "src_zone", "dst_zone">>
      [] cols = GeoMapSearchColumns ->
           <<"src_key", "dst_key", "src_label", "dst_label", "src_port", "dst_port", "src_country",
             "dst_country", "src_city", "dst_city", "last_action", "device", "proto">>
      [] OTHER ->
           <<"src_ip", "dst_ip", "src_port", "dst_port", "src_country", "dst_country", "src_city",
             "dst_city", "last_action", "device", "proto">>

-----------------------------------------------------------------------------
(* Conditions *)

NoClause == [on |-> FALSE, rows |-> {}]
Clause(S) == [on |-> TRUE, rows |-> S]

Text(row, col) == IF col \in DOMAIN row THEN row[col] ELSE <<"">>
Concat(row, cols) ==
    FlattenSeq([i \in 1 .. Len(AllConcat(cols)) |-> Text(row, AllConcat(cols)[i])])

\* positionCaseInsensitiveUTF8(text, needle) > 0, on whole words
HasPhrase(text, needle) ==
    \E i \in 0 .. Len(text) - Len(needle) : SubSeq(text, i + 1, i + Len(needle)) = needle

Matches(text, needle, op) ==
    CASE op = "eq" -> text = needle
      [] op = "ne" -> text # needle
      [] OTHER     -> HasPhrase(text, needle)

\* The rows one column keeps for one needle; "all" is the concatenation.
colMatchSQL(col, needle, op, cols) ==
    {r \in Rows : Matches(IF col = "all" THEN Concat(r, cols) ELSE Text(r, col), needle, op)}

\* Mutant: the parts of != are joined like those of =.
joinByOpAlwaysOr(op, parts) ==
    IF parts = {} THEN NoClause ELSE Clause(UNION parts)

joinByOp(op, parts) ==
    IF parts = {} THEN NoClause
    ELSE IF op = "ne" THEN Clause({r \in Rows : \A p \in parts : r \in p})
    ELSE Clause(UNION parts)

Blank(text) == text = <<"">>

\* A country is searched under each of its names.
needlesOf(n) ==
    IF /\ n.field \in {"country", "src_country", "dst_country", "all"}
       /\ Len(n.value) = 1 /\ n.value[1] \in DOMAIN countryNeedles
    THEN {<<w>> : w \in countryNeedles[n.value[1]]}
    ELSE {n.value}

termSQL(n, cols) ==
    joinByOp(n.op, {colMatchSQL(c, needle, n.op, cols) :
                      c \in IF n.field = "all" THEN {"all"} ELSE cols[n.field],
                      needle \in {v \in needlesOf(n) : ~Blank(v)}})

\* A side without a condition is left out.
joinBool(op, l, r) ==
    CASE ~l.on -> r
      [] l.on /\ ~r.on -> l
      [] OTHER -> Clause(IF op = "and" THEN l.rows \cap r.rows ELSE l.rows \cup r.rows)

Outside(c) == IF c.on THEN Clause(Rows \ c.rows) ELSE NoClause

RECURSIVE nodeSQL(_, _)
nodeSQL(n, cols) ==
    CASE n.kind = "not" -> Outside(nodeSQL(n.expr, cols))
      [] n.kind \in {"and", "or"} -> joinBool(n.kind, nodeSQL(n.left, cols), nodeSQL(n.right, cols))
      [] OTHER -> termSQL(n, cols)

MapSearchSQL(c, cols) ==
    CASE c.mode = "empty"  -> NoClause
      [] c.mode = "simple" -> Clause(colMatchSQL("all", c.text, "contains", cols))
      [] OTHER             -> nodeSQL(c.root, cols)

\* LogsWhere, GeoAggHavingExpr, IPAggHavingExpr: the country chosen on the map and
\* the query, on the table of cols.
countryPred(country, cols) ==
    {r \in Rows : \E c \in {"src_country", "dst_country"}
                           \cup (IF cols = GeoMapSearchColumns THEN {"src_key", "dst_key"} ELSE {}) :
                      Text(r, c) = country}

Kept(country, query, cols) ==
    {r \in Rows : /\ country = <<>> \/ r \in countryPred(country, cols)
                  /\ query.on => r \in query.rows}

LogsWhere(country, raw, cols) == Kept(country, MapSearchSQL(Compile(SanitizeMapQuery(raw)), cols), cols)

-----------------------------------------------------------------------------
(* Reference definitions *)

\* The shortest string that means the tree n: parentheses only where the
\* precedence (NOT, then AND, then OR) or the order of the operands asks for them.
Bracketed(on, text) == IF on THEN <<Word("(")>> \o text \o <<Word(")")>> ELSE text

RECURSIVE Written(_, _)
Written(n, level) ==
    LET own == CASE n.kind = "or" -> 1 [] n.kind = "and" -> 2 [] OTHER -> 3
    IN  Bracketed(own < level,
          CASE n.kind = "term" /\ n.field = "all" -> <<Quoted(n.value)>>
            [] n.kind = "term" /\ n.field # "all" ->
                 <<Word(n.field), Word(CASE n.op = "eq" -> "=" [] n.op = "ne" -> "!=" [] OTHER -> ":"),
                   Quoted(n.value)>>
            [] n.kind = "not" -> <<Word("NOT")>> \o Written(n.expr, 3)
            [] n.kind = "and" -> Written(n.left, 2) \o <<Word("AND")>> \o Written(n.right, 3)
            [] n.kind = "or"  -> Written(n.left, 1) \o <<Word("OR")>> \o Written(n.right, 2))

WithoutAnd(raw) == SelectSeq(raw, LAMBDA lex : lex # Word("AND"))

\* What a tree says of a row: a condition with a blank value says nothing.
RECURSIVE Says(_)
Says(n) ==
    CASE n.kind = "term" -> ~Blank(n.value)
      [] n.kind = "not"  -> Says(n.expr)
      [] OTHER           -> Says(n.left) \/ Says(n.right)

RECURSIVE Holds(_, _, _)
Holds(n, row, cols) ==
    LET texts == IF n.field = "all" THEN {Concat(row, cols)} ELSE {Text(row, c) : c \in cols[n.field]}
        some(op) == \E t \in texts, v \in needlesOf(n) : Matches(t, v, op)
    IN  CASE n.kind = "term" -> IF n.op = "ne" THEN ~some("eq") ELSE some(n.op)
          [] n.kind = "not"  -> ~Holds(n.expr, row, cols)
          [] n.kind = "and"  -> /\ Says(n.left) => Holds(n.left, row, cols)
                                /\ Says(n.right) => Holds(n.right, row, cols)
          [] n.kind = "or"   -> \/ Says(n.left) /\ Holds(n.left, row, cols)
                                \/ Says(n.right) /\ Holds(n.right, row, cols)

-----------------------------------------------------------------------------
(* Properties of a tree n *)

\* Parsing gives back the tree its string was written from, with AND written or
\* left out: precedence, grouping and the order of operands are as documented.
ParsedAsWritten(n) ==
    \A raw \in {Written(n, 1), WithoutAnd(Written(n, 1))} :
        Compile(raw) = [mode |-> "tree", root |-> n]

\* The rows kept are those the tree holds of, on every kind of table: in
\* particular != keeps exactly the rows = does not keep.
SearchExact(n) ==
    \A cols \in {LogsMapSearchColumns, GeoMapSearchColumns, IPAggMapSearchColumns} :
        LogsWhere(<<>>, Written(n, 1), cols)
            = {r \in Rows : Says(n) => Holds(n, r, cols)}
=============================================================================
