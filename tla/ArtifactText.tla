---------------------------- MODULE ArtifactText ----------------------------
(***************************************************************************)
(* How a reply of the model becomes an artifact (framework/pod/prompt.py). *)
(* A text is a sequence of tokens: a brace, a quote "q", a backslash "b", a *)
(* line break "n", a fence "f", or prose "x".  JSON is reduced to what the *)
(* parser's brace counter can tell apart: objects of strings and objects.  *)
(***************************************************************************)
EXTENDS Integers, Sequences

Tokens == {"{", "}", "q", "b", "n", "f", "x"}

\* A string; a backslash escapes what follows, json.loads permits only some.
Quoted(t, escapes) ==
    LET escaped[i \in 0 .. Len(t)] ==
            i > 1 /\ t[i - 1] = "b" /\ ~escaped[i - 1]
    IN /\ Len(t) >= 2 /\ t[1] = "q" /\ t[Len(t)] = "q"
       /\ \A i \in 2 .. Len(t) : (t[i] = "q" /\ ~escaped[i]) <=> i = Len(t)
       /\ \A i \in 2 .. Len(t) : escaped[i] => t[i] \in escapes

\* A run of single tokens, strings and pairs of braces around such a run.
RECURSIVE Nested(_, _, _)
Nested(t, single, escapes) ==
    \/ t = <<>>
    \/ t[1] \in single /\ Nested(Tail(t), single, escapes)
    \/ \E k \in 2 .. Len(t) :
          /\ \/ Quoted(SubSeq(t, 1, k), escapes)
             \/ /\ t[1] = "{" /\ t[k] = "}"
                /\ Nested(SubSeq(t, 2, k - 1), single, escapes)
          /\ Nested(SubSeq(t, k + 1, Len(t)), single, escapes)

Braced(t, single, escapes) ==
    /\ Len(t) >= 2 /\ t[1] = "{" /\ t[Len(t)] = "}"
    /\ Nested(SubSeq(t, 2, Len(t) - 1), single, escapes)

\* str.strip and json.loads.
Strip(t) ==
    LET solid == {i \in DOMAIN t : t[i] # "n"}
    IN IF solid = {} THEN <<>>
       ELSE SubSeq(t, CHOOSE i \in solid : \A j \in solid : i <= j,
                      CHOOSE i \in solid : \A j \in solid : j <= i)

IsObject(t) == Braced(t, {"n"}, {"q", "b", "x"})
Loads(t)    == LET s == Strip(t)
               IN IsObject(s) \/ (Quoted(s, {"q", "b", "x"}) /\ "n" \notin {s[i] : i \in DOMAIN s})

\* _extract_balanced_json: one pass over the text, up to the first balanced
\* object; braces and quotes inside a string do not count.
ExtractBalancedJson(t) ==
    LET scan[i \in 0 .. Len(t)] ==
            IF i = 0
            THEN [start |-> 0, depth |-> 0, in_str |-> FALSE, esc |-> FALSE, end |-> 0]
            ELSE LET s == scan[i - 1] IN
                 CASE s.end # 0 -> s
                   [] s.in_str /\ s.esc -> [s EXCEPT !.esc = FALSE]
                   [] s.in_str /\ t[i] = "b" -> [s EXCEPT !.esc = TRUE]
                   [] t[i] = "q" -> [s EXCEPT !.in_str = ~s.in_str]
                   [] ~s.in_str /\ t[i] = "{" ->
                        [s EXCEPT !.start = IF s.depth = 0 THEN i ELSE s.start,
                                  !.depth = s.depth + 1]
                   [] ~s.in_str /\ t[i] = "}" /\ s.depth > 0 ->
                        [s EXCEPT !.depth = s.depth - 1,
                                  !.end = IF s.depth = 1 THEN i ELSE 0]
                   [] OTHER -> s
        last == scan[Len(t)]
    IN IF last.end = 0 THEN <<>> ELSE SubSeq(t, last.start, last.end)

\* A text that begins with a fence loses its first line, and its last line if
\* that begins with one.
Unfence(t) ==
    LET Breaks(s) == {i \in DOMAIN s : s[i] = "n"}
        rest == IF Breaks(t) = {} THEN <<>>
                ELSE SubSeq(t, 1 + CHOOSE i \in Breaks(t) : \A j \in Breaks(t) : i <= j,
                            Len(t))
        last == IF Breaks(rest) = {} THEN 0
                ELSE CHOOSE i \in Breaks(rest) : \A j \in Breaks(rest) : j <= i
    IN IF t = <<>> \/ t[1] # "f" THEN t
       ELSE Strip(IF last < Len(rest) /\ rest[last + 1] = "f"
                  THEN SubSeq(rest, 1, last - 1) ELSE rest)

\* parse_artifact_content: what it parsed, or the text with _parse_error.
ParseArtifactContent(text) ==
    LET t == Unfence(Strip(text))
        e == ExtractBalancedJson(t)
    IN CASE Loads(t) -> [content |-> Strip(t)]
         [] ~Loads(t) /\ Loads(e) -> [content |-> e]
         [] OTHER -> [raw_text |-> t]
=============================================================================
