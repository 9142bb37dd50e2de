------------------------------- MODULE Values -------------------------------
(***************************************************************************)
(* The data of a compose file: texts, values, tables and options.          *)
(***************************************************************************)
EXTENDS Naturals, Sequences, SequencesExt, FiniteSets

(* A text is a sequence of words.  A value is [k, v]: serde_json's Value.   *)
Null == [k |-> "null", v |-> <<>>]
Str(s) == [k |-> "str", v |-> s]
Map(f) == [k |-> "map", v |-> f]
List(s) == [k |-> "list", v |-> s]

(* An optional value is a sequence of at most one element. *)
None == <<>>
Some(x) == <<x>>
OrElse(option, default) == IF option = None THEN default ELSE option[1]

(* Tables.  Of two that are merged the first one's entries win. *)
Set(f, k, v) == [x \in DOMAIN f \cup {k} |-> IF x = k THEN v ELSE f[x]]
MergeInto(merged, m) == [x \in DOMAIN merged \cup DOMAIN m |-> IF x \in DOMAIN merged THEN merged[x] ELSE m[x]]

(* Texts: str::split_once at a word, the name a text spells, paths. *)
Find(text, word) == SelectInSeq(text, LAMBDA w : w = word)
Before(text, word) == SubSeq(text, 1, Find(text, word) - 1)
After(text, word) == SubSeq(text, Find(text, word) + 1, Len(text))
Name(text) == FoldLeft(LAMBDA a, w : a \o w, "", text)
Absolute(path) == path # <<>> /\ Head(path) = "/"
=============================================================================
