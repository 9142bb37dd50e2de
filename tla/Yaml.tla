-------------------------------- MODULE Yaml --------------------------------
(***************************************************************************)
(* The YAML reader of dip (src/utils/yaml.rs): block mappings and          *)
(* sequences, flow collections, block scalars, anchors, aliases and the    *)
(* merge key, read line by line by recursive descent.                      *)
(*                                                                         *)
(* A line is [indent, text]; its text is a sequence of tokens [t, s]: t is *)
(* the kind, s a key's or an anchor's name, or the words of a scalar.      *)
(* Characters are below this model: what starts a token (a quote, a dash,  *)
(* the colon that ends a key, the hash of a comment) is taken as found.    *)
(***************************************************************************)
EXTENDS Values

CONSTANT Numerals      \* the texts that are numbers when they are not quoted

(* plain_scalar: the types of the YAML 1.2 core schema. *)
Plain(s) ==
    CASE s \in {<<>>, <<"~">>, <<"null">>}   -> Null
      [] s \in {<<"true">>, <<"false">>}     -> [k |-> "bool", v |-> s]
      [] s \in Numerals                     -> [k |-> "num", v |-> s]
      [] OTHER                              -> Str(s)

Token(t, s) == [t |-> t, s |-> s]
Is(text, t) == text # <<>> /\ Head(text).t = t

(* The reader's state; err once a function has returned an error. *)
State(lines) == [lines |-> lines, pos |-> 1, anchors |-> <<>>, err |-> FALSE]
Fail(st) == [v |-> Null, st |-> [st EXCEPT !.err = TRUE]]
Yield(v, st) == [v |-> v, st |-> st]

(* strip_comment: what a line says beside its comment. *)
Significant(line) == SelectSeq(line.text, LAMBDA x : x.t # "comment")
Blank(line) == Significant(line) = <<>>

(* peek, and advance_to_peeked with the step after it. *)
RECURSIVE NextLine(_, _)
NextLine(lines, i) == IF i > Len(lines) \/ ~Blank(lines[i]) THEN i ELSE NextLine(lines, i + 1)
Peeked(st) == NextLine(st.lines, st.pos)
AtEnd(st) == Peeked(st) > Len(st.lines)
Peek(st) == [indent |-> st.lines[Peeked(st)].indent, text |-> Significant(st.lines[Peeked(st)])]
Consume(st) == [st EXCEPT !.pos = Peeked(st) + 1]

Marker(line) == Is(line.text, "---") \/ Is(line.text, "...")
Item(line) == Is(line.text, "dash")
(* split_key finds a key in a line that begins with a dash, too. *)
HasKey(text) == Is(text, "key") \/ (Is(text, "dash") /\ Is(Tail(text), "key"))
KeyOf(text) == IF Is(text, "dash") THEN "- " \o text[2].s ELSE text[1].s
AfterKey(text) == IF Is(text, "dash") THEN Tail(Tail(text)) ELSE Tail(text)

Anchored(r, name) == Yield(r.v, [r.st EXCEPT !.anchors = Set(@, name, r.v)])
Sources(v) == IF v.k = "map" THEN <<v>> ELSE IF v.k = "list" THEN v.v ELSE <<Null>>

------------------------------------------------------------------------------
(* Flow collections: [a, b] and {a: b}, on as many lines as it takes for   *)
(* the brackets to close.  A flow reader's state is [rest, ok].            *)

Opening(x) == x.t \in {"[", "{"}
Closing(x) == x.t \in {"]", "}"}
FlowDepth(text) == Len(SelectSeq(text, Opening)) - Len(SelectSeq(text, Closing))

FlowFail == [v |-> Null, rest |-> <<>>, ok |-> FALSE]
Closes(text, t) == text # <<>> /\ Head(text).t = t

RECURSIVE FlowValue(_, _), FlowSeq(_, _, _), FlowMap(_, _, _), FlowText(_, _)
FlowValue(text, anchors) ==
    CASE text = <<>>              -> FlowFail
      [] Is(text, "[")            -> FlowSeq(Tail(text), anchors, <<>>)
      [] Is(text, "{")            -> FlowMap(Tail(text), anchors, <<>>)
      [] Is(text, "quoted")       -> [v |-> Str(Head(text).s), rest |-> Tail(text), ok |-> TRUE]
      [] Is(text, "alias")        -> IF Head(text).s \in DOMAIN anchors
                                     THEN [v |-> anchors[Head(text).s], rest |-> Tail(text), ok |-> TRUE]
                                     ELSE FlowFail
      [] Is(text, "plain")        -> [v |-> Plain(Head(text).s), rest |-> Tail(text), ok |-> TRUE]
      [] OTHER                    -> FlowFail
FlowSeq(text, anchors, items) ==
    IF Closes(text, "]") THEN [v |-> List(items), rest |-> Tail(text), ok |-> TRUE]
    ELSE LET r == FlowValue(text, anchors)
         IN  IF ~r.ok THEN FlowFail
             ELSE CASE Closes(r.rest, ",") -> FlowSeq(Tail(r.rest), anchors, Append(items, r.v))
                    [] Closes(r.rest, "]") -> FlowSeq(r.rest, anchors, Append(items, r.v))
                    [] OTHER               -> FlowFail
FlowMap(text, anchors, m) ==
    CASE Closes(text, "}") -> [v |-> Map(m), rest |-> Tail(text), ok |-> TRUE]
      [] Is(text, "key")   ->
           LET r == FlowValue(Tail(text), anchors)
           IN  IF ~r.ok THEN FlowFail
               ELSE CASE Closes(r.rest, ",") -> FlowMap(Tail(r.rest), anchors, Set(m, Head(text).s, r.v))
                      [] Closes(r.rest, "}") -> FlowMap(r.rest, anchors, Set(m, Head(text).s, r.v))
                      [] OTHER               -> FlowFail
      [] OTHER             -> FlowFail
(* The text of a flow collection that begins on the line just read. *)
FlowText(text, st) ==
    IF FlowDepth(text) < 0 \/ (FlowDepth(text) > 0 /\ AtEnd(st)) THEN [text |-> <<>>, st |-> [st EXCEPT !.err = TRUE]]
    ELSE IF FlowDepth(text) = 0 THEN [text |-> text, st |-> st]
    ELSE FlowText(text \o Peek(st).text, Consume(st))

------------------------------------------------------------------------------
(* Block scalars: the raw lines deeper than the key, comments included,    *)
(* with what indentation they have beyond the first of them.  Folding      *)
(* joins lines; "-" strips and "+" keeps the final line breaks.            *)

Words(text) == FlattenSeq([i \in DOMAIN text |->
    CASE text[i].t = "key"  -> <<text[i].s, ":">>
      [] text[i].t = "dash" -> <<"-">>
      [] OTHER              -> text[i].s])

Spaces(n) == [i \in 1 .. n |-> " "]
RECURSIVE BlockLines(_, _, _), Folded(_, _), Literal(_)
BlockLines(st, indent, base) ==
    LET line == st.lines[st.pos]
        from == IF base = None /\ line.text # <<>> THEN Some(line.indent) ELSE base
    IN  IF st.pos > Len(st.lines) \/ (line.text # <<>> /\ line.indent <= indent) THEN <<>>
        ELSE <<(IF line.text = <<>> THEN <<>> ELSE Spaces(line.indent - from[1])) \o Words(line.text)>>
             \o BlockLines([st EXCEPT !.pos = @ + 1], indent, from)
(* The content ends with the last line that is not empty. *)
Content(lines) == SubSeq(lines, 1, SelectLastInSeq(lines, LAMBDA line : line # <<>>))
Folded(lines, fresh) ==
    IF lines = <<>> THEN <<>>
    ELSE IF Head(lines) = <<>> THEN <<"\n">> \o Folded(Tail(lines), TRUE)
    ELSE (IF fresh THEN <<>> ELSE <<" ">>) \o Head(lines) \o Folded(Tail(lines), FALSE)
Literal(lines) ==
    IF lines = <<>> THEN <<>>
    ELSE Head(lines) \o (IF Len(lines) = 1 THEN <<>> ELSE <<"\n">>) \o Literal(Tail(lines))
BlockScalar(style, st, indent) ==
    LET all == BlockLines(st, indent, None)
        content == Content(all)
        body == IF style.folded THEN Folded(content, TRUE) ELSE Literal(content)
        breaks == CASE style.chomp = "strip" -> 0
                    [] style.chomp = "clip"  -> IF body = <<>> THEN 0 ELSE 1
                    [] style.chomp = "keep"  -> 1 + Len(all) - Len(content)
        used == SelectSeq(SubSeq(st.lines, st.pos, st.pos + Len(all) - 1), LAMBDA line : line.text # <<>>)
    IN  IF \E i \in DOMAIN used : used[i].indent < used[1].indent THEN Fail(st)
        ELSE Yield(Str(body \o [i \in 1 .. breaks |-> "\n"]), [st EXCEPT !.pos = @ + Len(all)])

------------------------------------------------------------------------------
RECURSIVE Node(_, _), Mapping(_, _, _, _), Sequence(_, _, _), ValueAfterKey(_, _, _), Inline(_, _)

(* parse_node: the block that begins at the next line, null if that line   *)
(* is not indented as far as min.                                          *)
Node(st, min) ==
    LET line == Peek(st)
    IN  IF AtEnd(st) \/ line.indent < min THEN Yield(Null, st)
        ELSE IF Item(line) THEN Sequence(st, line.indent, <<>>)
        ELSE IF HasKey(line.text) THEN Mapping(st, line.indent, <<>>, <<>>)
        ELSE Inline(line.text, Consume(st))

Mapping(st, indent, own, merged) ==
    LET line == Peek(st)
        r == ValueAfterKey(AfterKey(line.text), Consume(st), indent)
        key == KeyOf(line.text)
        sources == Sources(r.v)
    IN  IF AtEnd(st) \/ Marker(line) \/ line.indent < indent THEN Yield(Map(MergeInto(own, merged)), st)
        ELSE IF line.indent > indent \/ ~HasKey(line.text) THEN Fail(st)
        ELSE IF r.st.err THEN r
        ELSE IF key # "<<" THEN Mapping(r.st, indent, Set(own, key, r.v), merged)
        ELSE IF \E i \in DOMAIN sources : sources[i].k # "map" THEN Fail(st)
        ELSE Mapping(r.st, indent, own, FoldLeft(LAMBDA m, s : MergeInto(m, s.v), merged, sources))

(* After a dash the rest of the line is read as a line of its own, two     *)
(* columns further in.                                                     *)
Sequence(st, indent, items) ==
    LET line == Peek(st)
        at == Peeked(st)
        rest == Tail(line.text)
        r == IF rest = <<>> THEN Node(Consume(st), indent + 1)
             ELSE Node([st EXCEPT !.pos = at, !.lines[at] = [indent |-> indent + 2, text |-> rest]], indent + 1)
    IN  IF AtEnd(st) \/ line.indent # indent \/ ~Item(line) THEN Yield(List(items), st)
        ELSE IF r.st.err THEN r ELSE Sequence(r.st, indent, Append(items, r.v))

(* parse_value_after_key: what follows "key:". *)
ValueAfterKey(text, st, indent) ==
    CASE text = <<>>       -> Node(st, indent + 1)
      [] Is(text, "anchor") ->
           LET r == IF Tail(text) = <<>> THEN Node(st, indent + 1) ELSE ValueAfterKey(Tail(text), st, indent)
           IN  IF r.st.err THEN r ELSE Anchored(r, Head(text).s)
      [] Is(text, "block") -> BlockScalar(Head(text).s, st, indent)
      [] OTHER             -> Inline(text, st)

(* parse_inline_value: a value on one line, or a flow collection. *)
Inline(text, st) ==
    CASE Is(text, "alias") ->
           IF Len(text) > 1 \/ Head(text).s \notin DOMAIN st.anchors THEN Fail(st) ELSE Yield(st.anchors[Head(text).s], st)
      [] Is(text, "anchor") ->
           LET r == Inline(Tail(text), st)
           IN  IF Tail(text) = <<>> THEN Fail(st) ELSE IF r.st.err THEN r ELSE Anchored(r, Head(text).s)
      [] Is(text, "[") \/ Is(text, "{") ->
           LET flow == FlowText(text, st)
               r == FlowValue(flow.text, st.anchors)
           IN  IF flow.st.err \/ ~r.ok \/ r.rest # <<>> THEN Fail(st) ELSE Yield(r.v, flow.st)
      [] Is(text, "quoted") -> IF Len(text) > 1 THEN Fail(st) ELSE Yield(Str(Head(text).s), st)
      [] Is(text, "plain")  -> Yield(Plain(Head(text).s), st)
      [] OTHER              -> Fail(st)

(* parse_document: one document, with or without its markers. *)
Document(lines) ==
    LET st == State(lines)
        begun == IF ~AtEnd(st) /\ Is(Peek(st).text, "---") THEN Consume(st) ELSE st
        r == Node(begun, 0)
        ended == IF ~r.st.err /\ ~AtEnd(r.st) /\ Is(Peek(r.st).text, "...") THEN Consume(r.st) ELSE r.st
    IN  [v |-> r.v, ok |-> ~r.st.err /\ AtEnd(ended)]
=============================================================================
